---- MODULE Spec2Model ----
(***************************************************************************)
(* Rate-decision engine of FastAPI-RateLimiter: TokenBucketLimiter,        *)
(* LeakyBucketLimiter and QueueLimiter over a key-scoped state store.      *)
(*                                                                         *)
(* Time is counted in clock ticks.  A limiter's fill_rate is                *)
(* fillNum/fillDen tokens per tick, and every amount (tokens, water) is    *)
(* held as an integer number of units of 1/fillDen token, so that the      *)
(* arithmetic of the code is exact: one token is fillDen units and one     *)
(* tick refills fillNum units.                                             *)
(***************************************************************************)
EXTENDS Integers, Sequences, FiniteSets, TLC

\* ---------------------------------------------------------------- bounds
MaxCap == 3
MaxDen == 2
MaxTime == 3
MaxLog == 5
MaxCalls == 2
MaxTraceCalls == 3
MaxConcCap == 2
MaxConcTime == 1
MaxIdLen == 2

\* ----------------------------------------------------------------- state
VARIABLES
  capacity,   \* BaseRateLimiter.capacity (tokens)
  fillNum,    \* BaseRateLimiter.fill_rate = fillNum/fillDen tokens per tick
  fillDen,
  scope,      \* BaseRateLimiter.scope
  backend,    \* BaseRateLimiter.backend: "memory" or "redis"
  built,      \* whether the constructor has run: "no", "yes" or "failed"
  redis,      \* the shared store behind redis_client: key -> entry
  clock,      \* time.time()
  tbStore,    \* state store of the TokenBucketLimiter: key -> record
  lbStore,    \* state store of the LeakyBucketLimiter: key -> record
  qStore,     \* QueueLimiter._store: key -> mapping {queue, last_check}
  qHeap,      \* the list objects the queue mappings refer to: id -> list
  log,        \* one caller: the mutating calls made so far, with results
  obs,        \* one caller: the last call observed and what it returned
  algo,       \* concurrent callers: the limiter class under load
  pc,         \* concurrent callers: position of each thread in its call
  loc,        \* concurrent callers: local variables of each thread's call
  ncalls,     \* concurrent callers: allow_request and reset calls made
  tracing,    \* concurrent callers: whether completed calls are recorded
  hist        \* concurrent callers: the completed calls, when recorded

vars == <<capacity, fillNum, fillDen, scope, backend, built, redis, clock,
          tbStore, lbStore, qStore, qHeap, log, obs, algo, pc, loc, ncalls,
          tracing, hist>>

cfgVars == <<capacity, fillNum, fillDen, scope, backend, built, tracing>>

Identifiers == {"A", "B"}
Scopes == {"user", "ip", "global"}
SeqScopes == {"user", "global"}
SeqIdentifiers == {"A"}
Threads == {"t1", "t2"}
Algos == {"token", "leaky", "queue"}

None == [none |-> TRUE]

Min(a, b) == IF a <= b THEN a ELSE b
Max(a, b) == IF a >= b THEN a ELSE b

\* int(n / d) of Python for d # 0: truncation towards zero
IntTrunc(n, d) ==
  LET num == IF d < 0 THEN -n ELSE n
      den == IF d < 0 THEN -d ELSE d
  IN  IF num >= 0 THEN num \div den ELSE -((-num) \div den)

\* round(n / d) of Python for d # 0: to the nearest integer, ties to even
RoundHalfEven(n, d) ==
  LET num == IF d < 0 THEN -n ELSE n
      den == IF d < 0 THEN -d ELSE d
      q == num \div den
      r == num % den
  IN  IF 2 * r < den THEN q
      ELSE IF 2 * r > den THEN q + 1
      ELSE IF q % 2 = 0 THEN q ELSE q + 1

\* n / d of Python for d # 0, where d divides n
Quot(n, d) == IF d < 0 THEN (-n) \div (-d) ELSE n \div d

\* data.get(field, default)
Get(data, field, default) ==
  IF field \in DOMAIN data THEN data[field] ELSE default

\* ------------------------------------------------------- units of amount
One == fillDen                 \* 1 token, 1 unit of water
Cap == capacity * fillDen      \* self.capacity
FillRate == fillNum            \* self.fill_rate, in units per tick

\* ------------------------------------------------------------ key scheme
\* What a call hands back: a returned value or a raised exception.
Return(value) == [raised |-> FALSE, value |-> value]
Raise(exception) == [raised |-> TRUE, exception |-> exception]

\* Keys are the strings the code builds.  An identifier is the text that
\* the f-string puts in for it: a str as it is, None as the text None.
\* a key scheme that drops the identifier for the ip scope
_get_key_shared(sc, identifier) ==
  IF sc = "user" THEN Return("ratelimit:user:" \o identifier)
  ELSE IF sc = "ip" THEN Return("ratelimit:ip:")
  ELSE IF sc = "global" THEN Return("ratelimit:global")
  ELSE Raise("ValueError")

\* a key scheme that leaves the scope out of the key
_get_key_unscoped(sc, identifier) ==
  IF sc = "user" THEN Return("ratelimit:" \o identifier)
  ELSE IF sc = "ip" THEN Return("ratelimit:" \o identifier)
  ELSE IF sc = "global" THEN Return("ratelimit:global")
  ELSE Raise("ValueError")

\* a key scheme that takes every unknown scope for the global scope
_get_key_lenient(sc, identifier) ==
  IF sc = "user" THEN Return("ratelimit:user:" \o identifier)
  ELSE IF sc = "ip" THEN Return("ratelimit:ip:" \o identifier)
  ELSE Return("ratelimit:global")

\* a key scheme that gives every identifier its own key under scope global
_get_key_perid(sc, identifier) ==
  IF sc = "user" THEN Return("ratelimit:user:" \o identifier)
  ELSE IF sc = "ip" THEN Return("ratelimit:ip:" \o identifier)
  ELSE IF sc = "global" THEN Return("ratelimit:global:" \o identifier)
  ELSE Raise("ValueError")

\* BaseRateLimiter._get_key
_get_key(sc, identifier) ==
  IF sc = "user" THEN Return("ratelimit:user:" \o identifier)
  ELSE IF sc = "ip" THEN Return("ratelimit:ip:" \o identifier)
  ELSE IF sc = "global" THEN Return("ratelimit:global")
  ELSE Raise("ValueError")

\* the key of a limiter whose scope is one of user, ip, global
Key(identifier) == _get_key(scope, identifier).value

\* ----------------------------------------------------------- state store
_get_from_backend(store, key) ==
  IF key \in DOMAIN store THEN store[key] ELSE None

_set_to_backend(store, key, data) ==
  [k \in (DOMAIN store) \cup {key} |-> IF k = key THEN data ELSE store[k]]

_delete_from_backend(store, key) ==
  [k \in (DOMAIN store) \ {key} |-> store[k]]

\* ---------------------------------------------------------- token bucket
\* refill without the min(capacity, ...) clamp
TBTokens_uncapped(data, now) ==
  Get(data, "tokens_remaining", 0)
    + (now - Get(data, "last_fill_time", now)) * FillRate

\* tokens after refill: min(capacity, tokens + elapsed * fill_rate)
TBTokens(data, now) ==
  Min(Cap, Get(data, "tokens_remaining", 0)
             + (now - Get(data, "last_fill_time", now)) * FillRate)

\* a decision that needs more than one token
TBAllowed_strict(data, now) ==
  IF data = None THEN TRUE ELSE TBTokens(data, now) > One

\* the decision of TokenBucketLimiter.allow_request
TBAllowed(data, now) ==
  IF data = None THEN TRUE ELSE TBTokens(data, now) >= One

\* a rejected request that keeps the stored count and only moves the time on
TBNewData_forget(data, now) ==
  IF data = None
    THEN [tokens_remaining |-> Cap - One, last_fill_time |-> now]
    ELSE LET tokens == TBTokens(data, now)
         IN  [tokens_remaining |-> IF TBAllowed(data, now)
                                     THEN tokens - One
                                     ELSE Get(data, "tokens_remaining", 0),
              last_fill_time |-> now]

\* the record TokenBucketLimiter.allow_request writes
TBNewData(data, now) ==
  IF data = None
    THEN [tokens_remaining |-> Cap - One, last_fill_time |-> now]
    ELSE LET tokens == TBTokens(data, now)
         IN  [tokens_remaining |-> IF TBAllowed(data, now) THEN tokens - One
                                                           ELSE tokens,
              last_fill_time |-> now]

\* TokenBucketLimiter.get_wait_time, in ticks
TBWaitTime(data, now) ==
  IF data = None THEN 0
  ELSE LET current_tokens == TBTokens(data, now)
       IN  IF current_tokens >= One THEN 0
           ELSE Max(0, Quot(One - current_tokens, FillRate))

\* TokenBucketLimiter.get_status: tokens_remaining in hundredths of a token,
\* utilization_pct in tenths of a percent
TBStatus(data, now) ==
  IF data = None
    THEN [tokens_remaining |-> 100 * capacity, utilization_pct |-> 0]
    ELSE LET current_tokens == TBTokens(data, now)
         IN  [tokens_remaining |-> RoundHalfEven(current_tokens * 100, fillDen),
              utilization_pct |->
                RoundHalfEven((Cap - current_tokens) * 1000, Cap)]

\* ---------------------------------------------------------- leaky bucket
\* a leak without the max(0.0, ...) floor
LBLevel_unfloored(data, now) ==
  Get(data, "water_level", 0)
    - (now - Get(data, "last_check", now)) * FillRate

\* level after the leak: max(0, water_level - elapsed * fill_rate)
LBLevel(data, now) ==
  Max(0, Get(data, "water_level", 0)
           - (now - Get(data, "last_check", now)) * FillRate)

\* a decision that keeps the last unit of room unused
LBAllowed_strict(data, now) ==
  IF data = None THEN TRUE ELSE LBLevel(data, now) + One < Cap

\* the decision of LeakyBucketLimiter.allow_request
LBAllowed(data, now) ==
  IF data = None THEN TRUE ELSE LBLevel(data, now) + One <= Cap

\* the record LeakyBucketLimiter.allow_request writes
LBNewData(data, now) ==
  IF data = None
    THEN [water_level |-> One, last_check |-> now]
    ELSE LET water_level == LBLevel(data, now)
         IN  [water_level |-> IF LBAllowed(data, now)
                                THEN water_level + One ELSE water_level,
              last_check |-> now]

\* LeakyBucketLimiter.get_wait_time, in ticks
LBWaitTime(data, now) ==
  IF data = None THEN 0
  ELSE LET current_level == LBLevel(data, now)
       IN  IF current_level + One <= Cap THEN 0
           ELSE Max(0, Quot((current_level + One) - Cap, FillRate))

\* LeakyBucketLimiter.get_status: water_level and available in hundredths,
\* utilization_pct in tenths of a percent
LBStatus(data, now) ==
  IF data = None
    THEN [water_level |-> 0, available |-> 100 * capacity,
          utilization_pct |-> 0]
    ELSE LET current_level == LBLevel(data, now)
         IN  [water_level |-> RoundHalfEven(current_level * 100, fillDen),
              available |->
                RoundHalfEven(Max(0, Cap - current_level) * 100, fillDen),
              utilization_pct |-> RoundHalfEven(current_level * 1000, Cap)]

\* --------------------------------------------------------- queue limiter
\* A stored mapping holds a reference to a list object; the lists live in
\* the heap, so that a list reached from two places is one list.
NewObj(heap) ==
  CHOOSE o \in 1..(Cardinality(DOMAIN heap) + 1) :
    /\ o \notin DOMAIN heap
    /\ \A p \in 1..(o - 1) : p \in DOMAIN heap

\* the lists still referred to by a stored mapping or by a running call
Collect(heap, roots) == [o \in (DOMAIN heap) \cap roots |-> heap[o]]

StoreRoots(store) == {store[k].queue : k \in DOMAIN store}

\* a slice that drops the newest entries instead of the oldest
Drop_back(queue, n) ==
  IF n >= Len(queue) THEN <<>> ELSE SubSeq(queue, 1, Len(queue) - n)

\* queue[n:]
Drop(queue, n) ==
  IF n >= Len(queue) THEN <<>> ELSE SubSeq(queue, n + 1, Len(queue))

\* QueueLimiter._get_data, memory backend: the stored mapping, or a new
\* mapping with a new empty list and last_check = time.time()
_get_data(store, heap, key, t) ==
  IF key \in DOMAIN store
    THEN [data |-> store[key], heap |-> heap]
    ELSE LET o == NewObj(heap)
         IN  [data |-> [queue |-> o, last_check |-> t],
              heap |-> (o :> <<>>) @@ heap]

\* a _set_data that keeps nothing but the mapping it stores
_set_data_only(store, key, mapping) == [k \in {key} |-> mapping]

\* QueueLimiter._set_data, memory backend
_set_data(store, key, mapping) ==
  [k \in (DOMAIN store) \cup {key} |-> IF k = key THEN mapping ELSE store[k]]

\* requests_to_remove = int(time_elapsed * self.fill_rate)
QToRemove(data, now) == IntTrunc((now - data.last_check) * FillRate, One)

\* queue = queue[requests_to_remove:] makes a new list
QSlice(heap, obj, n) ==
  LET o == NewObj(heap)
  IN  [queue |-> o, heap |-> (o :> Drop(heap[obj], n)) @@ heap]

\* len(queue) < self.capacity
QHasRoom(heap, obj) == Len(heap[obj]) < capacity

\* queue.append(now) changes the list in place
QAppend(heap, obj, now) == [heap EXCEPT ![obj] = Append(@, now)]

\* an allow_request that moves last_check to now whether or not it removed
\* a request
QAllowRequest_advance(store, heap, key, t, now) ==
  LET g == _get_data(store, heap, key, t)
      n == QToRemove(g.data, now)
      s == IF n > 0 THEN QSlice(g.heap, g.data.queue, n)
                    ELSE [queue |-> g.data.queue, heap |-> g.heap]
      allowed == QHasRoom(s.heap, s.queue)
      h == IF allowed THEN QAppend(s.heap, s.queue, now) ELSE s.heap
      st == _set_data(store, key, [queue |-> s.queue, last_check |-> now])
  IN  [allowed |-> allowed, store |-> st,
       heap |-> Collect(h, StoreRoots(st))]

\* QueueLimiter.allow_request run by one caller without interruption:
\* the mapping is read at time t, the call's now is sampled at time now
QAllowRequest(store, heap, key, t, now) ==
  LET g == _get_data(store, heap, key, t)
      n == QToRemove(g.data, now)
      s == IF n > 0 THEN QSlice(g.heap, g.data.queue, n)
                    ELSE [queue |-> g.data.queue, heap |-> g.heap]
      last_check == IF n > 0 THEN now ELSE g.data.last_check
      allowed == QHasRoom(s.heap, s.queue)
      h == IF allowed THEN QAppend(s.heap, s.queue, now) ELSE s.heap
      st == _set_data(store, key,
                      [queue |-> s.queue, last_check |-> last_check])
  IN  [allowed |-> allowed, store |-> st,
       heap |-> Collect(h, StoreRoots(st))]

\* a retry time that ignores the time already elapsed
QRetryAfter_full(store, heap, key, t, now) ==
  LET g == _get_data(store, heap, key, t)
  IN  IF Len(g.heap[g.data.queue]) < capacity THEN 0
      ELSE IF QToRemove(g.data, now) > 0 THEN 0
      ELSE Quot(One, FillRate)

\* QueueLimiter.get_retry_after, in ticks
QRetryAfter(store, heap, key, t, now) ==
  LET g == _get_data(store, heap, key, t)
      time_elapsed == now - g.data.last_check
  IN  IF Len(g.heap[g.data.queue]) < capacity THEN 0
      ELSE IF QToRemove(g.data, now) > 0 THEN 0
      ELSE Max(0, Quot(One, FillRate) - time_elapsed)

\* QueueLimiter.get_current_usage
QCurrentUsage(store, heap, key, t, now) ==
  LET g == _get_data(store, heap, key, t)
      n == QToRemove(g.data, now)
      queue == IF n > 0 THEN Drop(g.heap[g.data.queue], n)
                        ELSE g.heap[g.data.queue]
  IN  [current_requests |-> Len(queue),
       available_slots |-> capacity - Len(queue)]

\* the stored record of a key as a value: the list itself, not its reference
QRecord(store, heap, key) ==
  IF key \in DOMAIN store
    THEN [queue |-> heap[store[key].queue],
          last_check |-> store[key].last_check]
    ELSE None

\* ------------------------------------------- whole calls, token and leaky
\* TokenBucketLimiter.allow_request: now sampled, record read, record written
TBAllowRequest(store, key, now) ==
  LET data == _get_from_backend(store, key)
  IN  [allowed |-> TBAllowed(data, now),
       store |-> _set_to_backend(store, key, TBNewData(data, now))]

\* LeakyBucketLimiter.allow_request
LBAllowRequest(store, key, now) ==
  LET data == _get_from_backend(store, key)
  IN  [allowed |-> LBAllowed(data, now),
       store |-> _set_to_backend(store, key, LBNewData(data, now))]

\* a reset that leaves the record in place
Reset_keep(store, key) == store

\* TokenBucketLimiter.reset, LeakyBucketLimiter.reset
Reset(store, key) == _delete_from_backend(store, key)

\* ------------------------------------------------------------ one caller
\* One caller drives a TokenBucketLimiter, a LeakyBucketLimiter and a
\* QueueLimiter of equal capacity, fill_rate and scope with the same calls
\* at the same times; no call overlaps another.
EmptyStore == [k \in {} |-> None]

NoLoc == [op |-> "none"]

SeqInit ==
  /\ capacity \in 1..MaxCap
  /\ fillNum = 1
  /\ fillDen \in 1..MaxDen
  /\ scope \in SeqScopes
  /\ backend = "memory"
  /\ built = "yes"
  /\ redis = EmptyStore
  /\ clock = 0
  /\ tbStore = EmptyStore
  /\ lbStore = EmptyStore
  /\ qStore = EmptyStore
  /\ qHeap = EmptyStore
  /\ log = <<>>
  /\ obs = None
  /\ algo = "all"
  /\ pc = [t \in Threads |-> "idle"]
  /\ loc = [t \in Threads |-> NoLoc]
  /\ ncalls = 0
  /\ tracing = FALSE
  /\ hist = <<>>

concVars == <<algo, pc, loc, ncalls, hist>>

\* time passes
Tick(limit) ==
  /\ clock < limit
  /\ clock' = clock + 1
  /\ obs' = None
  /\ UNCHANGED <<cfgVars, redis, tbStore, lbStore, qStore, qHeap, log, concVars>>

\* allow_request(identifier) on the three limiters
SeqAllow(identifier) ==
  /\ Len(log) < MaxLog
  /\ LET key == Key(identifier)
         tb == TBAllowRequest(tbStore, key, clock)
         lb == LBAllowRequest(lbStore, key, clock)
         q == QAllowRequest(qStore, qHeap, key, clock, clock)
     IN  /\ tbStore' = tb.store
         /\ lbStore' = lb.store
         /\ qStore' = q.store
         /\ qHeap' = q.heap
         /\ log' = Append(log,
              [op |-> "allow", id |-> identifier, key |-> key, t |-> clock,
               tb |-> tb.allowed, lb |-> lb.allowed, q |-> q.allowed,
               tbPre |-> _get_from_backend(tbStore, key),
               lbPre |-> _get_from_backend(lbStore, key),
               qPre |-> QRecord(qStore, qHeap, key),
               tbPost |-> _get_from_backend(tb.store, key),
               lbPost |-> _get_from_backend(lb.store, key),
               qPost |-> QRecord(q.store, q.heap, key)])
  /\ obs' = None
  /\ UNCHANGED <<cfgVars, redis, clock, concVars>>

\* reset(identifier) on the token bucket and the leaky bucket (the
\* QueueLimiter has no reset)
SeqReset(identifier) ==
  /\ Len(log) < MaxLog
  /\ LET key == Key(identifier)
     IN  /\ tbStore' = Reset(tbStore, key)
         /\ lbStore' = Reset(lbStore, key)
         /\ log' = Append(log,
              [op |-> "reset", id |-> identifier, key |-> key, t |-> clock,
               tb |-> FALSE, lb |-> FALSE, q |-> FALSE,
               tbPre |-> _get_from_backend(tbStore, key),
               lbPre |-> _get_from_backend(lbStore, key),
               qPre |-> QRecord(qStore, qHeap, key),
               tbPost |-> _get_from_backend(tbStore', key),
               lbPost |-> _get_from_backend(lbStore', key),
               qPost |-> QRecord(qStore, qHeap, key)])
  /\ obs' = None
  /\ UNCHANGED <<cfgVars, redis, clock, qStore, qHeap, concVars>>

\* get_wait_time / get_retry_after and get_status / get_current_usage
SeqObserve(identifier) ==
  /\ obs = None
  /\ LET key == Key(identifier)
     IN  obs' = [id |-> identifier, key |-> key, t |-> clock,
                 tbWait |-> TBWaitTime(_get_from_backend(tbStore, key), clock),
                 lbWait |-> LBWaitTime(_get_from_backend(lbStore, key), clock),
                 qRetry |-> QRetryAfter(qStore, qHeap, key, clock, clock),
                 tbStatus |-> TBStatus(_get_from_backend(tbStore, key), clock),
                 lbStatus |-> LBStatus(_get_from_backend(lbStore, key), clock),
                 qUsage |-> QCurrentUsage(qStore, qHeap, key, clock, clock)]
  /\ UNCHANGED <<cfgVars, redis, clock, tbStore, lbStore, qStore, qHeap, log,
                 concVars>>

SeqNext ==
  \/ Tick(MaxTime)
  \/ \E identifier \in SeqIdentifiers : SeqAllow(identifier)
  \/ \E identifier \in SeqIdentifiers : SeqReset(identifier)
  \/ \E identifier \in SeqIdentifiers : SeqObserve(identifier)

SeqSpec == SeqInit /\ [][SeqNext]_vars

\* ------------------------------------------------- claims, one caller
\* the calls of log[j..i] made for the key of log[j]
OnKey(j, i) == {m \in j..i : log[m].key = log[j].key}

\* log[j..i] holds, for the key of log[j], only allow_request calls made at
\* the time of log[j]: a burst with no time elapsing
IsBurst(j, i) ==
  /\ log[j].op = "allow"
  /\ log[i].key = log[j].key
  /\ \A m \in OnKey(j, i) : log[m].op = "allow" /\ log[m].t = log[j].t

\* C1: capacity bound.  In a burst of allow_request calls for one key that
\* starts with no stored state and in which no time elapses, the n-th call
\* is admitted if and only if n <= capacity, for each of the three limiters.
C1_CapacityBound ==
  \A j \in 1..Len(log) : \A i \in j..Len(log) :
    IsBurst(j, i) =>
      LET n == Cardinality(OnKey(j, i))
      IN  /\ log[j].tbPre = None => (log[i].tb <=> n <= capacity)
          /\ log[j].lbPre = None => (log[i].lb <=> n <= capacity)
          /\ log[j].qPre = None => (log[i].q <=> n <= capacity)

\* a burst from no state that is longer than capacity: its last call is
\* rejected by the three limiters
C1_Witness ==
  \E j \in 1..Len(log) : \E i \in j..Len(log) :
    /\ IsBurst(j, i)
    /\ log[j].tbPre = None /\ log[j].lbPre = None /\ log[j].qPre = None
    /\ Cardinality(OnKey(j, i)) > capacity
    /\ ~log[i].tb /\ ~log[i].lb /\ ~log[i].q

\* no reset was called for the key of log[i] in log[i..j]
NoReset(i, j) == \A m \in OnKey(i, j) : log[m].op = "allow"

\* C2: rate bound.  With calls made one at a time and no reset in between,
\* the requests a limiter admits for a key at times within [t1, t2] number
\* at most capacity + fill_rate * (t2 - t1).
C2_RateBound ==
  \A i \in 1..Len(log) : \A j \in i..Len(log) :
    (log[j].key = log[i].key /\ NoReset(i, j)) =>
      LET T == log[j].t - log[i].t
          bound == Cap + T * FillRate
      IN  /\ Cardinality({m \in OnKey(i, j) : log[m].tb}) * One <= bound
          /\ Cardinality({m \in OnKey(i, j) : log[m].lb}) * One <= bound
          /\ Cardinality({m \in OnKey(i, j) : log[m].q}) * One <= bound

\* an interval of positive length in which each limiter admitted more
\* than capacity requests, and one of its calls was rejected
C2_Witness ==
  \E i \in 1..Len(log) : \E j \in i..Len(log) :
    /\ log[j].key = log[i].key /\ NoReset(i, j)
    /\ log[j].t > log[i].t
    /\ Cardinality({m \in OnKey(i, j) : log[m].tb}) > capacity
    /\ Cardinality({m \in OnKey(i, j) : log[m].lb}) > capacity
    /\ Cardinality({m \in OnKey(i, j) : log[m].q}) > capacity
    /\ \E m \in OnKey(i, j) : ~log[m].tb /\ ~log[m].lb /\ ~log[m].q

\* C5: recovery timing.  When get_wait_time (token, leaky) or
\* get_retry_after (queue) returns w for a key at time t, and no other call
\* is made for the key, allow_request at t + w is admitted and allow_request
\* at any time in [t, t + w) is rejected; the queue with capacity 3 and
\* fill_rate 1, filled by three calls at one instant, reports 1.
C5_RecoveryTiming ==
  obs # None =>
    LET key == obs.key
        tbData == _get_from_backend(tbStore, key)
        lbData == _get_from_backend(lbStore, key)
    IN  /\ obs.tbWait >= 0 /\ obs.lbWait >= 0 /\ obs.qRetry >= 0
        /\ TBAllowRequest(tbStore, key, clock + obs.tbWait).allowed
        /\ \A d \in 0..(obs.tbWait - 1) :
             ~TBAllowRequest(tbStore, key, clock + d).allowed
        /\ LBAllowRequest(lbStore, key, clock + obs.lbWait).allowed
        /\ \A d \in 0..(obs.lbWait - 1) :
             ~LBAllowRequest(lbStore, key, clock + d).allowed
        /\ QAllowRequest(qStore, qHeap, key,
                         clock + obs.qRetry, clock + obs.qRetry).allowed
        /\ \A d \in 0..(obs.qRetry - 1) :
             ~QAllowRequest(qStore, qHeap, key, clock + d, clock + d).allowed
        /\ ( /\ capacity = 3 /\ fillDen = 1
             /\ QRecord(qStore, qHeap, key) =
                  [queue |-> <<clock, clock, clock>>, last_check |-> clock] )
           => obs.qRetry = 1

\* the concrete case: capacity 3, fill_rate 1, three calls admitted and a
\* fourth rejected at one instant; each limiter then reports a wait of 1
C5_Witness ==
  /\ obs # None /\ capacity = 3 /\ fillDen = 1
  /\ obs.tbWait = 1 /\ obs.lbWait = 1 /\ obs.qRetry = 1
  /\ Len(log) = 4
  /\ \A i \in 1..3 :
       /\ log[i].op = "allow" /\ log[i].key = obs.key /\ log[i].t = clock
       /\ log[i].tb /\ log[i].lb /\ log[i].q
  /\ log[4].op = "allow" /\ log[4].key = obs.key /\ log[4].t = clock
  /\ ~log[4].tb /\ ~log[4].lb /\ ~log[4].q

\* C6: duality.  A token bucket and a leaky bucket of equal capacity and
\* fill_rate, given the same calls at the same times, decide every
\* allow_request alike, and whenever both are observed, the reported
\* tokens_remaining plus the reported water_level is capacity.
C6_Duality ==
  /\ \A i \in 1..Len(log) : log[i].op = "allow" => (log[i].tb <=> log[i].lb)
  /\ obs # None =>
       obs.tbStatus.tokens_remaining + obs.lbStatus.water_level
         = 100 * capacity

\* both limiters are observed while the bucket is partly refilled, after
\* having rejected a request
C6_Witness ==
  /\ obs # None
  /\ obs.tbStatus.tokens_remaining % 100 = 50
  /\ obs.lbStatus.water_level > 0
  /\ \E i \in 1..Len(log) : log[i].op = "allow" /\ ~log[i].tb /\ ~log[i].lb

\* the last call made for a key before the end of the log, as a set
LastOnKey(key) ==
  {m \in 1..Len(log) :
     /\ log[m].key = key
     /\ \A n \in (m + 1)..Len(log) : log[n].key # key}

\* C7: idempotent reset (token bucket, leaky bucket).  reset deletes the
\* record of its key and nothing else; on a key with no state, and so also
\* when it follows another reset, it leaves the store as it is; the
\* allow_request that follows a reset is admitted and leaves the record of a
\* first request: capacity - 1 tokens, respectively water level 1, and now.
C7_IdempotentReset ==
  [][ /\ Len(log') = Len(log) + 1
      /\ LET e == log'[Len(log')]
         IN  /\ e.op = "reset" =>
                  /\ DOMAIN tbStore' = (DOMAIN tbStore) \ {e.key}
                  /\ DOMAIN lbStore' = (DOMAIN lbStore) \ {e.key}
                  /\ \A k \in DOMAIN tbStore' : tbStore'[k] = tbStore[k]
                  /\ \A k \in DOMAIN lbStore' : lbStore'[k] = lbStore[k]
                  /\ e.tbPre = None => tbStore' = tbStore
                  /\ e.lbPre = None => lbStore' = lbStore
                  /\ (\E m \in LastOnKey(e.key) : log[m].op = "reset")
                       => tbStore' = tbStore /\ lbStore' = lbStore
             /\ (e.op = "allow"
                   /\ \E m \in LastOnKey(e.key) : log[m].op = "reset") =>
                  /\ e.tb /\ e.lb
                  /\ e.tbPost = [tokens_remaining |-> Cap - One,
                                 last_fill_time |-> clock]
                  /\ e.lbPost = [water_level |-> One, last_check |-> clock]
                  /\ tbStore'[e.key] = e.tbPost
                  /\ lbStore'[e.key] = e.lbPost
      \/ Len(log') = Len(log) ]_vars

\* a reset of an exhausted key, a second reset on the now absent key, and
\* then an admitted request
C7_Witness ==
  \E i \in 1..Len(log) : \E j \in (i + 1)..Len(log) :
    \E k \in (j + 1)..Len(log) :
      /\ log[i].op = "reset" /\ log[i].tbPre # None /\ log[i].lbPre # None
      /\ log[i].tbPre.tokens_remaining < One
      /\ log[j].op = "reset" /\ log[j].key = log[i].key
      /\ log[j].tbPre = None /\ log[j].lbPre = None
      /\ log[k].op = "allow" /\ log[k].key = log[i].key /\ log[k].tb

\* ----------------------------------------------------- concurrent callers
\* Threads call one limiter object.  A thread can be preempted between any
\* two accesses to shared state: between sampling time.time(), reading the
\* store and writing it, and for the queue also between reading a list's
\* length and appending to it.
Start(recorded) ==
  /\ capacity \in 1..MaxConcCap
  /\ fillNum = 1
  /\ fillDen = 1
  /\ scope \in Scopes
  /\ backend = "memory"
  /\ built = "yes"
  /\ redis = EmptyStore
  /\ algo \in Algos
  /\ clock = 0
  /\ tbStore = EmptyStore
  /\ lbStore = EmptyStore
  /\ qStore = EmptyStore
  /\ qHeap = EmptyStore
  /\ log = <<>>
  /\ obs = None
  /\ pc = [t \in Threads |-> "idle"]
  /\ loc = [t \in Threads |-> NoLoc]
  /\ ncalls = 0
  /\ tracing = recorded
  /\ hist = <<>>

Init == Start(FALSE)

TraceInit == Start(TRUE)

seqVars == <<log, obs>>

\* the number of allow_request and reset calls a run is followed for
CallLimit == IF tracing THEN MaxTraceCalls ELSE MaxCalls

CanCall(t) == pc[t] = "idle" /\ ncalls < CallLimit

\* a completed allow_request or reset, with the times it sampled and
\* the decision it returned
Res(l, res) ==
  [op |-> l.op, id |-> l.id, key |-> l.key, t0 |-> l.t0, now |-> l.now,
   res |-> res]

Record(l, res) == IF tracing THEN Append(hist, Res(l, res)) ELSE hist

\* the lists a running call of the queue limiter holds a reference to
LocRoots(lc) ==
  UNION {IF "queue" \in DOMAIN lc[t] THEN {lc[t].queue, lc[t].data.queue}
         ELSE IF "data" \in DOMAIN lc[t] THEN {lc[t].data.queue}
         ELSE {} : t \in Threads}

\* --- TokenBucketLimiter and LeakyBucketLimiter
\* allow_request: key = self._get_key(identifier); now = time.time()
BucketCall(t, identifier) ==
  /\ algo \in {"token", "leaky"}
  /\ CanCall(t)
  /\ pc' = [pc EXCEPT ![t] = "read"]
  /\ loc' = [loc EXCEPT ![t] = [op |-> "allow", id |-> identifier,
                                key |-> Key(identifier),
                                t0 |-> clock, now |-> clock]]
  /\ ncalls' = ncalls + 1
  /\ UNCHANGED <<cfgVars, redis, algo, clock, tbStore, lbStore, qStore, qHeap,
                 hist, seqVars>>

\* allow_request: data = self._get_from_backend(key)
BucketRead(t) ==
  /\ algo \in {"token", "leaky"}
  /\ pc[t] = "read"
  /\ LET data == _get_from_backend(IF algo = "token" THEN tbStore
                                                      ELSE lbStore,
                                   loc[t].key)
     IN  loc' = [loc EXCEPT ![t] = [bdata |-> data] @@ loc[t]]
  /\ pc' = [pc EXCEPT ![t] = "write"]
  /\ UNCHANGED <<cfgVars, redis, algo, ncalls, clock, tbStore, lbStore, qStore, qHeap,
                 hist, seqVars>>

\* self._set_to_backend(key, new_data, ttl=self._ttl); return allowed
BucketWrite(t) ==
  /\ algo \in {"token", "leaky"}
  /\ pc[t] = "write"
  /\ LET l == loc[t]
     IN  IF algo = "token"
           THEN /\ tbStore' = _set_to_backend(tbStore, l.key,
                                              TBNewData(l.bdata, l.now))
                /\ lbStore' = lbStore
                /\ hist' = Record(l, TBAllowed(l.bdata, l.now))
           ELSE /\ lbStore' = _set_to_backend(lbStore, l.key,
                                              LBNewData(l.bdata, l.now))
                /\ tbStore' = tbStore
                /\ hist' = Record(l, LBAllowed(l.bdata, l.now))
  /\ pc' = [pc EXCEPT ![t] = "idle"]
  /\ loc' = [loc EXCEPT ![t] = NoLoc]
  /\ UNCHANGED <<cfgVars, redis, algo, ncalls, clock, qStore, qHeap, seqVars>>

\* reset: key = self._get_key(identifier); self._delete_from_backend(key)
BucketReset(t, identifier) ==
  /\ algo \in {"token", "leaky"}
  /\ CanCall(t)
  /\ LET key == Key(identifier)
         l == [op |-> "reset", id |-> identifier, key |-> key,
               t0 |-> clock, now |-> clock]
     IN  /\ IF algo = "token"
              THEN tbStore' = Reset(tbStore, key) /\ lbStore' = lbStore
              ELSE lbStore' = Reset(lbStore, key) /\ tbStore' = tbStore
         /\ hist' = Record(l, FALSE)
  /\ ncalls' = ncalls + 1
  /\ UNCHANGED <<cfgVars, redis, algo, clock, qStore, qHeap, pc, loc, seqVars>>

\* the call returns a value to its caller, who is not part of the model
Returned(value) == value = value

\* get_wait_time and get_status: now = time.time(); data =
\* self._get_from_backend(key); the result is computed from the record read
\* and returned.  Nothing is written; the time may have been sampled before
\* the record was read.
BucketQuery(t, op, identifier) ==
  /\ algo \in {"token", "leaky"}
  /\ pc[t] = "idle"
  /\ op \in {"wait", "status"}
  /\ \E now \in 0..clock :
       LET data == _get_from_backend(IF algo = "token" THEN tbStore
                                                        ELSE lbStore,
                                     Key(identifier))
           res == IF op = "wait"
                    THEN IF algo = "token" THEN TBWaitTime(data, now)
                                           ELSE LBWaitTime(data, now)
                    ELSE IF algo = "token" THEN TBStatus(data, now)
                                           ELSE LBStatus(data, now)
       IN  Returned(res)
  /\ UNCHANGED vars

\* --- QueueLimiter
\* allow_request: key = self._get_key(identifier);
\* data = self._get_data(key)
QueueCall(t, identifier) ==
  /\ algo = "queue"
  /\ CanCall(t)
  /\ LET key == Key(identifier)
         g == _get_data(qStore, qHeap, key, clock)
     IN  /\ loc' = [loc EXCEPT ![t] =
                      [op |-> "allow", id |-> identifier, key |-> key,
                       t0 |-> clock, data |-> g.data]]
         /\ qHeap' = g.heap
  /\ pc' = [pc EXCEPT ![t] = "q_now"]
  /\ ncalls' = ncalls + 1
  /\ UNCHANGED <<cfgVars, redis, algo, clock, tbStore, lbStore, qStore, hist,
                 seqVars>>

\* now = time.time(); queue = data.get("queue", []);
\* last_check = float(data.get("last_check", now))
QueueNow(t) ==
  /\ algo = "queue"
  /\ pc[t] = "q_now"
  /\ LET l == loc[t]
     IN  loc' = [loc EXCEPT ![t] =
                   [op |-> l.op, id |-> l.id, key |-> l.key, t0 |-> l.t0,
                    data |-> l.data, now |-> clock,
                    queue |-> l.data.queue,
                    last_check |-> l.data.last_check]]
  /\ pc' = [pc EXCEPT ![t] =
              IF QToRemove(loc[t].data, clock) > 0 THEN "q_slice"
                                                   ELSE "q_len"]
  /\ UNCHANGED <<cfgVars, redis, algo, ncalls, clock, tbStore, lbStore, qStore, qHeap,
                 hist, seqVars>>

\* if requests_to_remove > 0: queue = queue[requests_to_remove:];
\* last_check = now
QueueSlice(t) ==
  /\ algo = "queue"
  /\ pc[t] = "q_slice"
  /\ LET l == loc[t]
         s == QSlice(qHeap, l.queue, QToRemove(l.data, l.now))
     IN  /\ loc' = [loc EXCEPT ![t].queue = s.queue,
                               ![t].last_check = l.now]
         /\ qHeap' = Collect(s.heap, StoreRoots(qStore) \cup LocRoots(loc'))
  /\ pc' = [pc EXCEPT ![t] = "q_len"]
  /\ UNCHANGED <<cfgVars, redis, algo, ncalls, clock, tbStore, lbStore, qStore, hist,
                 seqVars>>

\* if len(queue) < self.capacity
QueueLen(t) ==
  /\ algo = "queue"
  /\ pc[t] = "q_len"
  /\ pc' = [pc EXCEPT ![t] =
              IF QHasRoom(qHeap, loc[t].queue) THEN "q_append" ELSE "q_set"]
  /\ loc' = [loc EXCEPT ![t] =
               [allowed |-> QHasRoom(qHeap, loc[t].queue)] @@ loc[t]]
  /\ UNCHANGED <<cfgVars, redis, algo, ncalls, clock, tbStore, lbStore, qStore, qHeap,
                 hist, seqVars>>

\* queue.append(now)
QueueAppend(t) ==
  /\ algo = "queue"
  /\ pc[t] = "q_append"
  /\ qHeap' = QAppend(qHeap, loc[t].queue, loc[t].now)
  /\ pc' = [pc EXCEPT ![t] = "q_set"]
  /\ UNCHANGED <<cfgVars, redis, algo, ncalls, clock, tbStore, lbStore, qStore, loc, hist,
                 seqVars>>

\* self._set_data(key, {"queue": queue, "last_check": last_check});
\* return True / return False
QueueSet(t) ==
  /\ algo = "queue"
  /\ pc[t] = "q_set"
  /\ LET l == loc[t]
     IN  /\ qStore' = _set_data(qStore, l.key,
                        [queue |-> l.queue, last_check |-> l.last_check])
         /\ hist' = Record(l, l.allowed)
  /\ pc' = [pc EXCEPT ![t] = "idle"]
  /\ loc' = [loc EXCEPT ![t] = NoLoc]
  /\ qHeap' = Collect(qHeap, StoreRoots(qStore') \cup LocRoots(loc'))
  /\ UNCHANGED <<cfgVars, redis, algo, ncalls, clock, tbStore, lbStore, seqVars>>

\* get_retry_after and get_current_usage: data = self._get_data(key);
\* now = time.time(); the result is computed from the mapping and the list
\* and returned.  Nothing is stored: the list made for an absent key is
\* dropped with the call.
QueueQuery(t, op, identifier) ==
  /\ algo = "queue"
  /\ pc[t] = "idle"
  /\ op \in {"retry", "usage"}
  /\ \E t0 \in 0..clock :
       LET res == IF op = "retry"
                    THEN QRetryAfter(qStore, qHeap, Key(identifier), t0, clock)
                    ELSE QCurrentUsage(qStore, qHeap, Key(identifier),
                                       t0, clock)
       IN  Returned(res)
  /\ UNCHANGED vars

\* a step of thread t inside the call it is running
ThreadStep(t) ==
  \/ BucketRead(t)
  \/ BucketWrite(t)
  \/ QueueNow(t)
  \/ QueueSlice(t)
  \/ QueueLen(t)
  \/ QueueAppend(t)
  \/ QueueSet(t)

\* thread t invokes a call for an identifier
ThreadCall(t, identifier) ==
  \/ BucketCall(t, identifier)
  \/ BucketReset(t, identifier)
  \/ \E op \in {"wait", "status"} : BucketQuery(t, op, identifier)
  \/ QueueCall(t, identifier)
  \/ \E op \in {"retry", "usage"} : QueueQuery(t, op, identifier)

Next ==
  \/ Tick(MaxConcTime)
  \/ \E t \in Threads : \E identifier \in Identifiers :
       ThreadCall(t, identifier)
  \/ \E t \in Threads : ThreadStep(t)

Spec == Init /\ [][Next]_vars

\* the same callers, with every completed allow_request and reset recorded
TraceSpec == TraceInit /\ [][Next]_vars

\* ------------------------------------------- claims, concurrent callers
AllIdle == \A t \in Threads : pc[t] = "idle"

\* the orders in which n calls can be made one after the other
Orders(n) ==
  {f \in [1..n -> 1..n] : \A i, j \in 1..n : f[i] = f[j] => i = j}

\* the completed call c made alone on the state st = [store, heap]
AloneStep(c, st) ==
  IF c.op = "reset"
    THEN [allowed |-> FALSE,
          st |-> [store |-> Reset(st.store, c.key), heap |-> st.heap]]
  ELSE IF algo = "token"
    THEN LET r == TBAllowRequest(st.store, c.key, c.now)
         IN  [allowed |-> r.allowed,
              st |-> [store |-> r.store, heap |-> st.heap]]
  ELSE IF algo = "leaky"
    THEN LET r == LBAllowRequest(st.store, c.key, c.now)
         IN  [allowed |-> r.allowed,
              st |-> [store |-> r.store, heap |-> st.heap]]
  ELSE LET r == QAllowRequest(st.store, st.heap, c.key, c.t0, c.now)
       IN  [allowed |-> r.allowed,
            st |-> [store |-> r.store, heap |-> r.heap]]

\* the calls of hist made one after the other in the order f, from the i-th
\* on: whether each returns the decision hist records, and the final state
RECURSIVE Alone(_, _, _)
Alone(f, i, st) ==
  IF i > Len(hist) THEN [same |-> TRUE, st |-> st]
  ELSE LET r == AloneStep(hist[f[i]], st)
       IN  IF r.allowed = hist[f[i]].res THEN Alone(f, i + 1, r.st)
           ELSE [same |-> FALSE, st |-> st]

\* the stored record of an identifier's key in the limiter under load
RecordOf(identifier) ==
  IF algo = "token" THEN _get_from_backend(tbStore, Key(identifier))
  ELSE IF algo = "leaky" THEN _get_from_backend(lbStore, Key(identifier))
  ELSE QRecord(qStore, qHeap, Key(identifier))

\* the record an execution of calls one after the other leaves for a key
AloneRecord(st, key) ==
  IF algo = "queue" THEN QRecord(st.store, st.heap, key)
  ELSE _get_from_backend(st.store, key)

\* C3: per-key linearizability.  When all calls have returned, the decisions
\* they returned and the stored records are those of the same calls made one
\* after the other in some order, each reading the record the call before it
\* wrote; no update is lost.
C3_Linearizable ==
  AllIdle =>
    \E f \in Orders(Len(hist)) :
      LET r == Alone(f, 1, [store |-> EmptyStore, heap |-> EmptyStore])
      IN  /\ r.same
          /\ \A identifier \in Identifiers :
               AloneRecord(r.st, Key(identifier)) = RecordOf(identifier)

\* the completed calls for a key
CallsOn(key) == {i \in 1..Len(hist) : hist[i].key = key}

\* C4: no double admission.  With no reset, the requests admitted for a key
\* since its first call, made by any number of threads, number at most
\* capacity plus the units refilled since that call began.
C4_NoDoubleAdmission ==
  \A identifier \in Identifiers :
    LET key == Key(identifier)
        admitted == {i \in CallsOn(key) : hist[i].op = "allow" /\ hist[i].res}
    IN  (admitted # {} /\ \A i \in CallsOn(key) : hist[i].op = "allow") =>
          \A i \in CallsOn(key) :
            (\A j \in CallsOn(key) : hist[i].t0 <= hist[j].t0) =>
              Cardinality(admitted) * One
                <= Cap + (clock - hist[i].t0) * FillRate

\* thread t takes a step of a call made for the identifier
StepOn(t, identifier) ==
  \/ ThreadCall(t, identifier)
  \/ pc[t] # "idle" /\ loc[t].id = identifier /\ ThreadStep(t)

\* what the introspection calls return for an identifier at time now
Observed(identifier, now) ==
  LET key == Key(identifier)
  IN  IF algo = "token"
        THEN <<TBWaitTime(_get_from_backend(tbStore, key), now),
               TBStatus(_get_from_backend(tbStore, key), now)>>
      ELSE IF algo = "leaky"
        THEN <<LBWaitTime(_get_from_backend(lbStore, key), now),
               LBStatus(_get_from_backend(lbStore, key), now)>>
      ELSE <<QRetryAfter(qStore, qHeap, key, now, now),
             QCurrentUsage(qStore, qHeap, key, now, now)>>

\* C8: key isolation.  With scope user or ip, no step of a call made for an
\* identifier, in any interleaving, changes the stored record of another
\* identifier or what the introspection calls return for it: a step that
\* changes either for b is not a step of a call for another identifier.
C8_KeyIsolation ==
  [][ \A b \in Identifiers :
        ( /\ scope \in {"user", "ip"}
          /\ \/ RecordOf(b)' # RecordOf(b)
             \/ Observed(b, clock)' # Observed(b, clock) ) =>
          ~ \E t \in Threads : \E a \in Identifiers \ {b} : StepOn(t, a) ]_vars

\* a call for one identifier has left its record while a thread is inside
\* a call for the other identifier, which has no record yet
C8_Witness ==
  /\ scope \in {"user", "ip"}
  /\ RecordOf("A") # None /\ RecordOf("B") = None
  /\ \E t \in Threads : pc[t] # "idle" /\ loc[t].id = "B"

\* C9: token bucket state invariant.  Every stored tokens_remaining, and
\* every token count a call computes from the record it has read, lies in
\* [0, capacity].
C9_TokenInvariant ==
  /\ \A key \in DOMAIN tbStore :
       /\ 0 <= tbStore[key].tokens_remaining
       /\ tbStore[key].tokens_remaining <= Cap
  /\ \A t \in Threads :
       (algo = "token" /\ pc[t] = "write" /\ loc[t].bdata # None) =>
         /\ 0 <= TBTokens(loc[t].bdata, loc[t].now)
         /\ TBTokens(loc[t].bdata, loc[t].now) <= Cap

\* C10: leaky bucket state invariant.  Every stored water_level lies in
\* [0, capacity].
C10_LeakyInvariant ==
  \A key \in DOMAIN lbStore :
    /\ 0 <= lbStore[key].water_level
    /\ lbStore[key].water_level <= Cap

\* C11: queue state invariant.  In every reachable state the list stored for
\* a key of the QueueLimiter holds at most capacity timestamps, in
\* non-decreasing order.
C11_QueueInvariant ==
  algo = "queue" =>
    \A key \in DOMAIN qStore :
      LET queue == qHeap[qStore[key].queue]
      IN  /\ Len(queue) <= capacity
          /\ \A i \in 1..(Len(queue) - 1) : queue[i] <= queue[i + 1]

\* ------------------------------------------------------- the key scheme
\* _get_key applied to pairs of (scope, identifier), the identifiers being
\* the strings of up to MaxIdLen characters over IdChars.
IdChars == {"a", "u", ":"}

RECURSIVE Texts(_)
Texts(n) ==
  IF n = 0 THEN {""}
  ELSE LET shorter == Texts(n - 1)
       IN  shorter \cup {s \o c : s \in shorter, c \in IdChars}

\* the state in which no limiter exists and nothing is stored
Blank ==
  /\ capacity = 1
  /\ fillNum = 1
  /\ fillDen = 1
  /\ scope = "user"
  /\ backend = "memory"
  /\ built = "no"
  /\ redis = EmptyStore
  /\ clock = 0
  /\ tbStore = EmptyStore
  /\ lbStore = EmptyStore
  /\ qStore = EmptyStore
  /\ qHeap = EmptyStore
  /\ log = <<>>
  /\ obs = None
  /\ algo = "none"
  /\ pc = [t \in Threads |-> "idle"]
  /\ loc = [t \in Threads |-> NoLoc]
  /\ ncalls = 0
  /\ tracing = FALSE
  /\ hist = <<>>

KeyInit == Blank

\* _get_key is called for (sa, ia) and for (sb, ib)
KeyLookup(sa, ia, sb, ib) ==
  /\ obs = None
  /\ obs' = [sa |-> sa, ia |-> ia, ka |-> _get_key(sa, ia),
             sb |-> sb, ib |-> ib, kb |-> _get_key(sb, ib)]
  /\ UNCHANGED <<cfgVars, redis, clock, tbStore, lbStore, qStore, qHeap,
                 log, concVars>>

KeyNext ==
  \E sa \in Scopes, sb \in Scopes :
    \E ia \in Texts(MaxIdLen), ib \in Texts(MaxIdLen) :
      KeyLookup(sa, ia, sb, ib)

KeySpec == KeyInit /\ [][KeyNext]_vars

\* C17: key scheme injectivity.  _get_key gives the same key whenever it is
\* given the same (scope, identifier); for string identifiers, two different
\* pairs with scope user or ip never get the same key, none of their keys
\* is the key of scope global, and the keys are ratelimit:<scope>:<identifier>
\* for user and ip and ratelimit:global for global.
C17_KeyInjective ==
  obs # None =>
    /\ ~obs.ka.raised /\ ~obs.kb.raised
    /\ obs.ka = _get_key(obs.sa, obs.ia)
    /\ (obs.sa = obs.sb /\ obs.ia = obs.ib) => obs.ka = obs.kb
    /\ ( /\ obs.sa \in {"user", "ip"} /\ obs.sb \in {"user", "ip"}
         /\ <<obs.sa, obs.ia>> # <<obs.sb, obs.ib>> )
         => obs.ka.value # obs.kb.value
    /\ (obs.sa \in {"user", "ip"} /\ obs.sb = "global")
         => obs.ka.value # obs.kb.value
    /\ obs.sa \in {"user", "ip"}
         => obs.ka.value = "ratelimit:" \o obs.sa \o ":" \o obs.ia
    /\ obs.sa = "global" => obs.ka.value = "ratelimit:global"

\* two pairs that differ only in where the text user: stands: in the scope of
\* one, in the identifier of the other
C17_Witness ==
  /\ obs # None
  /\ obs.sa = "user" /\ obs.ia = "a"
  /\ obs.sb = "ip" /\ obs.ib = "u:"
  /\ obs.ka.value = "ratelimit:user:a"
  /\ obs.kb.value = "ratelimit:ip:u:"

\* ======================================================================
\* One limiter object driven by one caller, with every outcome a call can
\* have: a returned value or a raised exception.  The constructor arguments
\* are any the constructors accept, the backend is the memory of the object
\* or the shared store behind redis_client, a store round trip can fail, and
\* a stored record can be damaged.
\* ======================================================================
MaxEdgeCap == 1
MaxEdgeTime == 1
MaxEdgeCalls == 2

\* the + 60 of self._ttl, in ticks
TtlMargin == 60

EdgeCaps == (-1)..MaxEdgeCap
EdgeRates == {-1, 0, 1}
EdgeScopes == Scopes \cup {"region"}
Backends == {"memory", "redis"}
EdgeIdentifiers == {"A", "None"}
Failures == {"none", "read", "write"}

\* ------------------------------------------------ numbers and lists as text
Digits == <<"0", "1", "2", "3", "4", "5", "6", "7", "8", "9">>

IsDigit(c) == \E d \in 1..10 : Digits[d] = c

DigitVal(c) == (CHOOSE d \in 1..10 : Digits[d] = c) - 1

\* str(n) of a time stamp
str(n) == ToString(n)

\* the number a run of digits stands for
RECURSIVE NumVal(_)
NumVal(text) ==
  IF Len(text) = 0 THEN 0
  ELSE 10 * NumVal(SubSeq(text, 1, Len(text) - 1))
         + DigitVal(SubSeq(text, Len(text), Len(text)))

IsNumber(text) ==
  /\ Len(text) > 0
  /\ \A i \in 1..Len(text) : IsDigit(SubSeq(text, i, i))

\* float(text)
float(text) ==
  IF IsNumber(text) THEN Return(NumVal(text)) ELSE Raise("ValueError")

\* json.dumps(queue) of a list of time stamps
RECURSIVE Joined(_)
Joined(queue) ==
  IF Len(queue) = 0 THEN ""
  ELSE IF Len(queue) = 1 THEN str(queue[1])
  ELSE str(queue[1]) \o ", " \o Joined(Tail(queue))

json_dumps(queue) == "[" \o Joined(queue) \o "]"

\* the position of the first character of text at or after i that is not a
\* digit, Len(text) + 1 if there is none
RECURSIVE EndOfDigits(_, _)
EndOfDigits(text, i) ==
  IF i > Len(text) THEN i
  ELSE IF IsDigit(SubSeq(text, i, i)) THEN EndOfDigits(text, i + 1)
  ELSE i

\* json.loads reading the items of a list from position i of text, after the
\* items already read
RECURSIVE LoadItems(_, _, _)
LoadItems(text, i, items) ==
  LET j == EndOfDigits(text, i)
  IN  IF j = i THEN Raise("JSONDecodeError")
      ELSE LET read == Append(items, NumVal(SubSeq(text, i, j - 1)))
           IN  IF j = Len(text) /\ SubSeq(text, j, j) = "]"
                 THEN Return(read)
               ELSE IF j + 1 < Len(text) /\ SubSeq(text, j, j + 1) = ", "
                 THEN LoadItems(text, j + 2, read)
               ELSE Raise("JSONDecodeError")

\* json.loads(text) of the text of a list of time stamps, for the texts that
\* json_dumps writes and the texts cut out of them
json_loads(text) ==
  IF text = "[]" THEN Return(<<>>)
  ELSE IF Len(text) < 2 \/ SubSeq(text, 1, 1) # "["
    THEN Raise("JSONDecodeError")
  ELSE LoadItems(text, 2, <<>>)

\* -------------------------------------------------------- the shared store
\* redis maps a key to an entry [type, value] or [type, value, deadline]:
\* type "string" holds one record, type "hash" holds a mapping from field
\* names to texts; an entry with a deadline is gone from the tick deadline on.
\* fail names the round trip that cannot reach the store in this call.
Entry(type, value) == [type |-> type, value |-> value]

Expiring(type, value, deadline) ==
  [type |-> type, value |-> value, deadline |-> deadline]

\* the entries still there at time now
Live(r, now) ==
  [k \in {j \in DOMAIN r : "deadline" \in DOMAIN r[j] => r[j].deadline > now}
     |-> r[k]]

Put(r, key, entry) ==
  [k \in (DOMAIN r) \cup {key} |-> IF k = key THEN entry ELSE r[k]]

\* redis_client.hgetall(key)
hgetall(r, key, fail) ==
  IF fail = "read" THEN Raise("ConnectionError")
  ELSE IF key \notin DOMAIN r THEN Return(<<>>)
  ELSE IF r[key].type # "hash" THEN Raise("ResponseError")
  ELSE Return(r[key].value)

\* redis_client.hset(key, mapping=redis_mapping): the fields of the mapping
\* are set, the deadline of the key is left as it is
hset(r, key, mapping, fail) ==
  IF fail = "write" THEN Raise("ConnectionError")
  ELSE IF key \notin DOMAIN r THEN Return(Put(r, key, Entry("hash", mapping)))
  ELSE IF r[key].type # "hash" THEN Raise("ResponseError")
  ELSE Return(Put(r, key, [r[key] EXCEPT !.value = mapping @@ @]))

\* State Store get on the shared store: the record of the key, None for an
\* absent key
SharedGet(r, key, fail) ==
  IF fail = "read" THEN Raise("ConnectionError")
  ELSE IF key \notin DOMAIN r THEN Return(None)
  ELSE IF r[key].type # "string" THEN Raise("ResponseError")
  ELSE Return(r[key].value)

\* State Store put on the shared store: overwrites, and sets the expiry
\* countdown from the call time
SharedPut(r, key, data, ttl, fail, now) ==
  IF fail = "write" THEN Raise("ConnectionError")
  ELSE Return(Put(r, key, Expiring("string", data, now + ttl)))

\* State Store delete on the shared store
SharedDelete(r, key, fail) ==
  IF fail = "write" THEN Raise("ConnectionError")
  ELSE Return(_delete_from_backend(r, key))

\* ------------------------------------------------------------ construction
\* a ttl of half the time from empty to full, without the margin
_ttl_short == IntTrunc(Cap, 2 * FillRate)

\* self._ttl = int((capacity / fill_rate) * 2) + 60
_ttl == IntTrunc(2 * Cap, FillRate) + TtlMargin

\* __init__ of the limiter class al: BaseRateLimiter.__init__ stores its
\* arguments; TokenBucketLimiter and LeakyBucketLimiter compute self._ttl,
\* QueueLimiter sets self._store
__init__(al, cap, rate) ==
  IF al \in {"token", "leaky"} /\ rate = 0 THEN Raise("ZeroDivisionError")
  ELSE Return(al)

\* ------------------------------------------- queue limiter on the shared store
\* a _get_data that takes a store it cannot reach for a store without the key
_get_data_failopen(r, key, fail, t) ==
  LET data == hgetall(r, key, fail)
  IN  IF data.raised \/ DOMAIN data.value = {}
        THEN Return([queue |-> <<>>, last_check |-> t])
      ELSE LET queue == json_loads(Get(data.value, "queue", "[]"))
               last_check == float(Get(data.value, "last_check", "0"))
           IN  IF queue.raised THEN queue
               ELSE IF last_check.raised THEN last_check
               ELSE Return([queue |-> queue.value,
                            last_check |-> last_check.value])

\* QueueLimiter._get_data, redis backend
_get_data_redis(r, key, fail, t) ==
  LET data == hgetall(r, key, fail)
  IN  IF data.raised THEN data
      ELSE IF DOMAIN data.value = {}
        THEN Return([queue |-> <<>>, last_check |-> t])
      ELSE LET queue == json_loads(Get(data.value, "queue", "[]"))
               last_check == float(Get(data.value, "last_check", "0"))
           IN  IF queue.raised THEN queue
               ELSE IF last_check.raised THEN last_check
               ELSE Return([queue |-> queue.value,
                            last_check |-> last_check.value])

\* QueueLimiter._set_data, redis backend
_set_data_redis(r, key, mapping, fail) ==
  hset(r, key, [queue |-> json_dumps(mapping.queue),
                last_check |-> str(mapping.last_check)], fail)

\* QueueLimiter.allow_request from the mapping read to the mapping written,
\* the list being a value
QDecide(data, now) ==
  LET n == QToRemove(data, now)
      queue == IF n > 0 THEN Drop(data.queue, n) ELSE data.queue
      last_check == IF n > 0 THEN now ELSE data.last_check
      allowed == Len(queue) < capacity
  IN  [allowed |-> allowed,
       mapping |-> [queue |-> IF allowed THEN Append(queue, now) ELSE queue,
                    last_check |-> last_check]]

\* QueueLimiter.get_retry_after on the mapping read, the list being a value
QRetryOf(data, now) ==
  IF Len(data.queue) < capacity THEN 0
  ELSE IF QToRemove(data, now) > 0 THEN 0
  ELSE Max(0, Quot(One, FillRate) - (now - data.last_check))

\* QueueLimiter.get_current_usage on the mapping read, the list being a value
QUsageOf(data, now) ==
  LET n == QToRemove(data, now)
      queue == IF n > 0 THEN Drop(data.queue, n) ELSE data.queue
  IN  [current_requests |-> Len(queue),
       available_slots |-> capacity - Len(queue)]

\* ------------------------------------------------- whole calls with outcomes
\* everything a limiter object can store into: the mappings in memory and the
\* shared store
World ==
  [tb |-> tbStore, lb |-> lbStore, q |-> qStore, heap |-> qHeap,
   redis |-> redis]

\* a call ends: its outcome, the stores after it, and the reads and writes
\* of stored state it made, in order
Done(out, w, ops) == [out |-> out, w |-> w, ops |-> ops]

Mem(w) == IF algo = "token" THEN w.tb ELSE w.lb

WithMem(w, store) ==
  IF algo = "token" THEN [w EXCEPT !.tb = store] ELSE [w EXCEPT !.lb = store]

\* a limiter that keeps every record in its own memory, whatever its backend
UsesRedis_never == FALSE

\* if self.backend == "redis"
UsesRedis == backend = "redis"

\* self._get_from_backend(key), for either backend
BackendGet(w, key, fail) ==
  IF UsesRedis THEN SharedGet(w.redis, key, fail)
  ELSE Return(_get_from_backend(Mem(w), key))

\* self._set_to_backend(key, new_data, ttl=self._ttl), for either backend
BackendPut(w, key, data, fail, now) ==
  IF UsesRedis
    THEN LET p == SharedPut(w.redis, key, data, _ttl, fail, now)
         IN  IF p.raised THEN p ELSE Return([w EXCEPT !.redis = p.value])
    ELSE Return(WithMem(w, _set_to_backend(Mem(w), key, data)))

\* self._delete_from_backend(key), for either backend
BackendDelete(w, key, fail) ==
  IF UsesRedis
    THEN LET d == SharedDelete(w.redis, key, fail)
         IN  IF d.raised THEN d ELSE Return([w EXCEPT !.redis = d.value])
    ELSE Return(WithMem(w, Reset(Mem(w), key)))

\* an allow_request that writes the record only when it admits
BucketAllowRequest_admitonly(w, identifier, fail, now) ==
  LET key == _get_key(scope, identifier)
  IN  IF key.raised THEN Done(key, w, <<>>)
      ELSE LET data == BackendGet(w, key.value, fail)
           IN  IF data.raised THEN Done(data, w, <<"get">>)
               ELSE LET allowed == IF algo = "token"
                                     THEN TBAllowed(data.value, now)
                                     ELSE LBAllowed(data.value, now)
                        new_data == IF algo = "token"
                                      THEN TBNewData(data.value, now)
                                      ELSE LBNewData(data.value, now)
                        put == BackendPut(w, key.value, new_data, fail, now)
                    IN  IF ~allowed THEN Done(Return(FALSE), w, <<"get">>)
                        ELSE IF put.raised THEN Done(put, w, <<"get", "put">>)
                        ELSE Done(Return(allowed), put.value,
                                  <<"get", "put">>)

\* TokenBucketLimiter.allow_request, LeakyBucketLimiter.allow_request
BucketAllowRequest(w, identifier, fail, now) ==
  LET key == _get_key(scope, identifier)
  IN  IF key.raised THEN Done(key, w, <<>>)
      ELSE LET data == BackendGet(w, key.value, fail)
           IN  IF data.raised THEN Done(data, w, <<"get">>)
               ELSE LET allowed == IF algo = "token"
                                     THEN TBAllowed(data.value, now)
                                     ELSE LBAllowed(data.value, now)
                        new_data == IF algo = "token"
                                      THEN TBNewData(data.value, now)
                                      ELSE LBNewData(data.value, now)
                        put == BackendPut(w, key.value, new_data, fail, now)
                    IN  IF put.raised THEN Done(put, w, <<"get", "put">>)
                        ELSE Done(Return(allowed), put.value,
                                  <<"get", "put">>)

\* TokenBucketLimiter.reset, LeakyBucketLimiter.reset
BucketResetCall(w, identifier, fail) ==
  LET key == _get_key(scope, identifier)
  IN  IF key.raised THEN Done(key, w, <<>>)
      ELSE LET del == BackendDelete(w, key.value, fail)
           IN  IF del.raised THEN Done(del, w, <<"delete">>)
               ELSE Done(Return(None), del.value, <<"delete">>)

\* a get_wait_time that puts the record it has read back into the store,
\* which starts the record's expiry countdown again
BucketWaitTime_touch(w, identifier, fail, now) ==
  LET key == _get_key(scope, identifier)
  IN  IF key.raised THEN Done(key, w, <<>>)
      ELSE LET data == BackendGet(w, key.value, fail)
           IN  IF data.raised THEN Done(data, w, <<"get">>)
               ELSE Done(Return(IF algo = "token"
                                  THEN TBWaitTime(data.value, now)
                                  ELSE LBWaitTime(data.value, now)),
                         IF data.value = None THEN w
                         ELSE BackendPut(w, key.value, data.value, "none",
                                         now).value,
                         <<"get">>)

\* get_wait_time of the token and the leaky bucket
BucketWaitTime(w, identifier, fail, now) ==
  LET key == _get_key(scope, identifier)
  IN  IF key.raised THEN Done(key, w, <<>>)
      ELSE LET data == BackendGet(w, key.value, fail)
           IN  IF data.raised THEN Done(data, w, <<"get">>)
               ELSE Done(Return(IF algo = "token"
                                  THEN TBWaitTime(data.value, now)
                                  ELSE LBWaitTime(data.value, now)),
                         w, <<"get">>)

\* get_status of the token and the leaky bucket: the utilization divides by
\* self.capacity
BucketStatus(w, identifier, fail, now) ==
  LET key == _get_key(scope, identifier)
  IN  IF key.raised THEN Done(key, w, <<>>)
      ELSE LET data == BackendGet(w, key.value, fail)
           IN  IF data.raised THEN Done(data, w, <<"get">>)
               ELSE IF data.value # None /\ capacity = 0
                 THEN Done(Raise("ZeroDivisionError"), w, <<"get">>)
               ELSE Done(Return(IF algo = "token"
                                  THEN TBStatus(data.value, now)
                                  ELSE LBStatus(data.value, now)),
                         w, <<"get">>)

\* QueueLimiter.allow_request
QueueAllowRequest(w, identifier, fail, now) ==
  LET key == _get_key(scope, identifier)
  IN  IF key.raised THEN Done(key, w, <<>>)
      ELSE IF UsesRedis
        THEN LET data == _get_data_redis(w.redis, key.value, fail, now)
             IN  IF data.raised THEN Done(data, w, <<"hgetall">>)
                 ELSE LET d == QDecide(data.value, now)
                          set == _set_data_redis(w.redis, key.value,
                                                 d.mapping, fail)
                      IN  IF set.raised
                            THEN Done(set, w, <<"hgetall", "hset">>)
                            ELSE Done(Return(d.allowed),
                                      [w EXCEPT !.redis = set.value],
                                      <<"hgetall", "hset">>)
      ELSE LET a == QAllowRequest(w.q, w.heap, key.value, now, now)
           IN  Done(Return(a.allowed),
                    [w EXCEPT !.q = a.store, !.heap = a.heap],
                    <<"get", "set">>)

\* the mapping _get_data hands to a read-only call, the list as a value
QueueRead(w, key, fail, now) ==
  IF UsesRedis THEN _get_data_redis(w.redis, key, fail, now)
  ELSE LET g == _get_data(w.q, w.heap, key, now)
       IN  Return([queue |-> g.heap[g.data.queue],
                   last_check |-> g.data.last_check])

\* QueueLimiter.get_retry_after: 1.0 / self.fill_rate is computed when the
\* queue is full and nothing is to be removed
QueueRetryAfter(w, identifier, fail, now) ==
  LET key == _get_key(scope, identifier)
      ops == IF UsesRedis THEN <<"hgetall">> ELSE <<"get">>
  IN  IF key.raised THEN Done(key, w, <<>>)
      ELSE LET data == QueueRead(w, key.value, fail, now)
           IN  IF data.raised THEN Done(data, w, ops)
               ELSE IF /\ Len(data.value.queue) >= capacity
                       /\ QToRemove(data.value, now) <= 0
                       /\ FillRate = 0
                 THEN Done(Raise("ZeroDivisionError"), w, ops)
               ELSE Done(Return(QRetryOf(data.value, now)), w, ops)

\* QueueLimiter.get_current_usage
QueueCurrentUsage(w, identifier, fail, now) ==
  LET key == _get_key(scope, identifier)
      ops == IF UsesRedis THEN <<"hgetall">> ELSE <<"get">>
  IN  IF key.raised THEN Done(key, w, <<>>)
      ELSE LET data == QueueRead(w, key.value, fail, now)
           IN  IF data.raised THEN Done(data, w, ops)
               ELSE Done(Return(QUsageOf(data.value, now)), w, ops)

\* the call op of the limiter object: allow_request, reset, get_wait_time or
\* get_retry_after, get_status or get_current_usage.  QueueLimiter has no
\* method reset.
Call(op, w, identifier, fail, now) ==
  IF algo = "queue"
    THEN IF op = "allow" THEN QueueAllowRequest(w, identifier, fail, now)
         ELSE IF op = "reset" THEN Done(Raise("AttributeError"), w, <<>>)
         ELSE IF op = "wait" THEN QueueRetryAfter(w, identifier, fail, now)
         ELSE QueueCurrentUsage(w, identifier, fail, now)
    ELSE IF op = "allow" THEN BucketAllowRequest(w, identifier, fail, now)
         ELSE IF op = "reset" THEN BucketResetCall(w, identifier, fail)
         ELSE IF op = "wait" THEN BucketWaitTime(w, identifier, fail, now)
         ELSE BucketStatus(w, identifier, fail, now)

Ops == {"allow", "reset", "wait", "status"}

\* ------------------------------------------------------------ the one caller
\* what the caller saw of its last step
Seen(op, identifier, fail, out, ops) ==
  [op |-> op, id |-> identifier, fail |-> fail, out |-> out, ops |-> ops]

\* the arguments handed to the constructor; nothing is stored
EdgeInit ==
  /\ capacity \in EdgeCaps
  /\ fillNum \in EdgeRates
  /\ fillDen = 1
  /\ scope \in EdgeScopes
  /\ backend \in Backends
  /\ algo \in Algos
  /\ built = "no"
  /\ redis = EmptyStore
  /\ clock = 0
  /\ tbStore = EmptyStore
  /\ lbStore = EmptyStore
  /\ qStore = EmptyStore
  /\ qHeap = EmptyStore
  /\ log = <<>>
  /\ obs = None
  /\ pc = [t \in Threads |-> "idle"]
  /\ loc = [t \in Threads |-> NoLoc]
  /\ ncalls = 0
  /\ tracing = FALSE
  /\ hist = <<>>

\* the constructor of the limiter class runs
Construct ==
  /\ built = "no"
  /\ LET made == __init__(algo, capacity, fillNum)
     IN  /\ built' = IF made.raised THEN "failed" ELSE "yes"
         /\ obs' = Seen("init", "None", "none", made, <<>>)
  /\ UNCHANGED <<capacity, fillNum, fillDen, scope, backend, tracing, redis,
                 clock, tbStore, lbStore, qStore, qHeap, log, concVars>>

\* the caller makes the call op on the limiter object it has; log keeps the
\* identifiers the caller has used
EdgeCall(op, identifier, fail) ==
  /\ built = "yes"
  /\ ncalls < MaxEdgeCalls
  /\ fail # "none" => (backend = "redis" /\ op = "allow")
  /\ LET res == Call(op, World, identifier, fail, clock)
     IN  /\ tbStore' = res.w.tb
         /\ lbStore' = res.w.lb
         /\ qStore' = res.w.q
         /\ qHeap' = res.w.heap
         /\ redis' = res.w.redis
         /\ obs' = Seen(op, identifier, fail, res.out, res.ops)
  /\ ncalls' = ncalls + 1
  /\ log' = Append(log, identifier)
  /\ UNCHANGED <<cfgVars, clock, algo, pc, loc, hist>>

\* a record without the field f
LoseField(record, f) == [g \in (DOMAIN record) \ {f} |-> record[g]]

\* whether a stored record has the shape its limiter writes
Intact(record) ==
  IF algo = "token"
    THEN DOMAIN record = {"tokens_remaining", "last_fill_time"}
  ELSE IF algo = "leaky" THEN DOMAIN record = {"water_level", "last_check"}
  ELSE /\ DOMAIN record = {"queue", "last_check"}
       /\ ~json_loads(record.queue).raised
       /\ ~float(record.last_check).raised

\* the records of the limiter that are kept outside the program's heap of
\* lists: key -> record
RecordsIn(w) ==
  IF backend = "redis" THEN [k \in DOMAIN w.redis |-> w.redis[k].value]
  ELSE IF algo = "token" THEN w.tb
  ELSE IF algo = "leaky" THEN w.lb
  ELSE EmptyStore

Records == RecordsIn(World)

\* the stored record of key becomes the record damaged
Rewrite(key, damaged) ==
  IF backend = "redis"
    THEN /\ redis' = [redis EXCEPT ![key].value = damaged]
         /\ UNCHANGED <<tbStore, lbStore>>
  ELSE IF algo = "token"
    THEN /\ tbStore' = [tbStore EXCEPT ![key] = damaged]
         /\ UNCHANGED <<redis, lbStore>>
  ELSE /\ lbStore' = [lbStore EXCEPT ![key] = damaged]
       /\ UNCHANGED <<redis, tbStore>>

\* a stored record is damaged behind the back of the limiter: it loses a
\* field, or the text of its queue is cut short
Damage(key) ==
  /\ built = "yes"
  /\ key \in DOMAIN Records
  /\ Intact(Records[key])
  /\ \/ \E f \in DOMAIN Records[key] :
          Rewrite(key, LoseField(Records[key], f))
     \/ /\ algo = "queue"
        /\ \E n \in 0..(Len(Records[key].queue) - 1) :
             Rewrite(key, [Records[key] EXCEPT
                             !.queue = SubSeq(@, 1, n)])
  /\ obs' = Seen("damage", key, "none", Return(None), <<>>)
  /\ UNCHANGED <<cfgVars, clock, qStore, qHeap, log, concVars>>

\* time passes; the shared store drops the entries whose deadline has come
EdgeTick ==
  /\ clock < MaxEdgeTime
  /\ clock' = clock + 1
  /\ redis' = Live(redis, clock + 1)
  /\ UNCHANGED <<cfgVars, tbStore, lbStore, qStore, qHeap, log, obs,
                 concVars>>

\* the keys of the identifiers under the three scopes
EdgeKeys ==
  {_get_key(sc, identifier).value : sc \in Scopes,
                                    identifier \in EdgeIdentifiers}

EdgeNext ==
  \/ Construct
  \/ \E op \in Ops : \E identifier \in EdgeIdentifiers : \E fail \in Failures :
       EdgeCall(op, identifier, fail)
  \/ \E key \in EdgeKeys : Damage(key)
  \/ EdgeTick

EdgeSpec == EdgeInit /\ [][EdgeNext]_vars

\* C12: InvalidConfiguration.  A limiter whose constructor has returned, and
\* which can therefore execute allow_request, wait-time and status calls,
\* has a positive capacity and a positive fill_rate: the constructor fails
\* for every capacity <= 0 and every fill_rate <= 0.
C12_InvalidConfiguration ==
  built = "yes" => (capacity > 0 /\ fillNum > 0)

\* C13: InvalidScope.  On a limiter whose scope is not one of user, ip and
\* global, every allow_request, reset, wait-time and status call, for every
\* identifier, ends in a raised exception and never in a returned value, and
\* leaves every store as it was; the call the caller made last has ended so.
C13_InvalidScope ==
  (built = "yes" /\ scope \notin Scopes) =>
    /\ \A op \in Ops : \A identifier \in EdgeIdentifiers :
         LET res == Call(op, World, identifier, "none", clock)
         IN  /\ res.out.raised
             /\ res.w = World
             /\ res.ops = <<>>
    /\ obs.op \in Ops => obs.out.raised
    /\ World = [tb |-> EmptyStore, lb |-> EmptyStore, q |-> EmptyStore,
                heap |-> EmptyStore, redis |-> EmptyStore]

\* a limiter of scope region has been called twice; the last call was
\* allow_request and raised the ValueError of _get_key
C13_Witness ==
  /\ built = "yes"
  /\ scope = "region"
  /\ ncalls = 2
  /\ obs.op = "allow"
  /\ obs.out = Raise("ValueError")

\* C14: BackendUnavailable.  When the shared store cannot be reached for the
\* read or for the write of an allow_request, the call ends in a raised
\* exception, neither True nor False; the read is made once and the write at
\* most once; every stored record is the one from before the call.  A read
\* that cannot reach the store ends the call with the connection error before
\* anything is written, and so does a write that follows a read.
C14_BackendUnavailable ==
  (built = "yes" /\ backend = "redis") =>
    /\ \A identifier \in EdgeIdentifiers : \A fail \in {"read", "write"} :
         LET res == Call("allow", World, identifier, fail, clock)
         IN  /\ res.out.raised
             /\ res.w = World
             /\ Len(res.ops) <= 2
             /\ Len(res.ops) = 2 => res.ops[1] # res.ops[2]
             /\ (scope \in Scopes /\ fail = "read") =>
                  /\ res.out = Raise("ConnectionError")
                  /\ Len(res.ops) = 1
             /\ Len(res.ops) = 2 => res.out = Raise("ConnectionError")
    /\ (obs.op = "allow" /\ obs.fail # "none") => obs.out.raised

\* a key has a record in the shared store, and the allow_request just made
\* for it read the record and could not reach the store for its write
C14_Witness ==
  /\ built = "yes"
  /\ backend = "redis"
  /\ scope = "user"
  /\ obs.op = "allow"
  /\ obs.fail = "write"
  /\ obs.out = Raise("ConnectionError")
  /\ Len(obs.ops) = 2
  /\ "ratelimit:user:" \o obs.id \in DOMAIN redis

\* the record the first allow_request for a key stores at time now
FirstRecord(now) ==
  IF algo = "token" THEN TBNewData(None, now)
  ELSE IF algo = "leaky" THEN LBNewData(None, now)
  ELSE [queue |-> json_dumps(<<now>>), last_check |-> str(now)]

\* C15: StateCorrupt.  On a limiter with valid arguments, when the stored
\* record of a key does not have the shape the limiter writes (a field is
\* missing, or the text of the queue is cut short), allow_request for the
\* key returns True and the stored record of the key becomes the record a
\* first request stores.
C15_StateCorrupt ==
  (built = "yes" /\ scope \in Scopes /\ capacity > 0 /\ fillNum > 0) =>
    \A identifier \in EdgeIdentifiers :
      LET key == Key(identifier)
          res == Call("allow", World, identifier, "none", clock)
      IN  (key \in DOMAIN Records /\ ~Intact(Records[key])) =>
            /\ res.out = Return(TRUE)
            /\ RecordsIn(res.w)[key] = FirstRecord(clock)

\* C18: the global scope ignores the identifier.  On a limiter of scope
\* global, each of allow_request, reset, wait-time and status has the same
\* outcome and leaves the same stores whichever identifier it is given, None
\* or a string; the limiter keeps at most one record, under the key
\* ratelimit:global, so that every caller draws on the one budget.
C18_GlobalIgnoresIdentifier ==
  (built = "yes" /\ scope = "global") =>
    /\ \A op \in Ops : \A ia \in EdgeIdentifiers : \A ib \in EdgeIdentifiers :
         Call(op, World, ia, "none", clock) = Call(op, World, ib, "none", clock)
    /\ DOMAIN Records \subseteq {"ratelimit:global"}
    /\ DOMAIN qStore \subseteq {"ratelimit:global"}

\* a limiter of scope global and capacity 1 admitted the request of one
\* identifier and, in the same tick, has rejected the request of the other
C18_Witness ==
  /\ built = "yes"
  /\ scope = "global"
  /\ capacity = 1
  /\ fillNum = 1
  /\ clock = 0
  /\ log = <<"A", "None">>
  /\ obs.op = "allow"
  /\ obs.out = Return(FALSE)
  /\ "ratelimit:global" \in DOMAIN Records \cup DOMAIN qStore

\* C24: one read, one write per decision.  Every allow_request that comes to
\* a decision, of each algorithm and on each path (first request, admit,
\* reject), makes exactly one read of stored state followed by exactly one
\* write, both for its own key: after it the key has a record, and the
\* record of every other key, in the memory of the limiter and in the shared
\* store, is the record it was.
C24_OneReadOneWrite ==
  built = "yes" =>
    \A identifier \in EdgeIdentifiers :
      LET res == Call("allow", World, identifier, "none", clock)
          key == Key(identifier)
      IN  ~res.out.raised =>
            /\ Len(res.ops) = 2
            /\ res.ops[1] \in {"get", "hgetall"}
            /\ res.ops[2] \in {"put", "hset", "set"}
            /\ key \in DOMAIN RecordsIn(res.w) \cup DOMAIN res.w.q
            /\ DOMAIN res.w.tb \cup {key} = DOMAIN tbStore \cup {key}
            /\ DOMAIN res.w.lb \cup {key} = DOMAIN lbStore \cup {key}
            /\ DOMAIN res.w.q \cup {key} = DOMAIN qStore \cup {key}
            /\ DOMAIN res.w.redis \cup {key} = DOMAIN redis \cup {key}
            /\ \A k \in (DOMAIN tbStore) \ {key} : res.w.tb[k] = tbStore[k]
            /\ \A k \in (DOMAIN lbStore) \ {key} : res.w.lb[k] = lbStore[k]
            /\ \A k \in (DOMAIN redis) \ {key} : res.w.redis[k] = redis[k]
            /\ \A k \in (DOMAIN qStore) \ {key} :
                 QRecord(res.w.q, res.w.heap, k) = QRecord(qStore, qHeap, k)

\* a first request for the identifier A, made when the key of another
\* identifier has a record: one read, one write, and two keys stored
C24_Witness ==
  /\ built = "yes"
  /\ scope = "user"
  /\ capacity = 1
  /\ log = <<"None", "A">>
  /\ obs.op = "allow"
  /\ obs.out = Return(TRUE)
  /\ Len(obs.ops) = 2
  /\ obs.ops[1] \in {"get", "hgetall"}
  /\ obs.ops[2] \in {"put", "hset", "set"}
  /\ DOMAIN Records \cup DOMAIN qStore
       = {"ratelimit:user:None", "ratelimit:user:A"}

\* ======================================================================
\* Limiter objects that come and go over one shared store: the caller uses
\* one limiter object at a time, all with backend redis and the same
\* redis_client, capacity and fill_rate, and may replace the object by a new
\* one of any class and scope.
\* ======================================================================
MaxSharedCap == 2
MaxSharedTime == 1
MaxSharedCalls == 3
MaxObjects == 2

SharedIdentifiers == {"A"}
SharedScopes == {"user", "ip"}

\* the first limiter object is constructed; hist lists the class and scope
\* of every object constructed, log the calls made, each with the number of
\* the object it was made on
SharedInit ==
  /\ capacity \in 1..MaxSharedCap
  /\ fillNum = 1
  /\ fillDen = 1
  /\ scope \in SharedScopes
  /\ backend = "redis"
  /\ algo \in Algos
  /\ built = "yes"
  /\ redis = EmptyStore
  /\ clock = 0
  /\ tbStore = EmptyStore
  /\ lbStore = EmptyStore
  /\ qStore = EmptyStore
  /\ qHeap = EmptyStore
  /\ log = <<>>
  /\ obs = Seen("init", "None", "none", Return(algo), <<>>)
  /\ pc = [t \in Threads |-> "idle"]
  /\ loc = [t \in Threads |-> NoLoc]
  /\ ncalls = 0
  /\ tracing = FALSE
  /\ hist = << <<algo, scope>> >>

\* the stores as a newly constructed limiter object finds them: its own
\* self._store is empty, the shared store is as it is
NewObject(w) == [w EXCEPT !.q = EmptyStore, !.heap = EmptyStore]

\* the caller constructs a limiter object of class al and scope sc and uses
\* it from now on
Replace(al, sc) ==
  /\ Len(hist) < MaxObjects
  /\ ~__init__(al, capacity, fillNum).raised
  /\ algo' = al
  /\ scope' = sc
  /\ qStore' = NewObject(World).q
  /\ qHeap' = NewObject(World).heap
  /\ hist' = Append(hist, <<al, sc>>)
  /\ obs' = Seen("replace", "None", "none", Return(al), <<>>)
  /\ UNCHANGED <<capacity, fillNum, fillDen, backend, built, tracing, redis,
                 clock, tbStore, lbStore, log, pc, loc, ncalls>>

\* the caller makes the call op on the limiter object in use
SharedCall(op, identifier) ==
  /\ ncalls < MaxSharedCalls
  /\ LET res == Call(op, World, identifier, "none", clock)
     IN  /\ tbStore' = res.w.tb
         /\ lbStore' = res.w.lb
         /\ qStore' = res.w.q
         /\ qHeap' = res.w.heap
         /\ redis' = res.w.redis
         /\ obs' = Seen(op, identifier, "none", res.out, res.ops)
  /\ ncalls' = ncalls + 1
  /\ log' = Append(log, [obj |-> Len(hist), op |-> op,
                          out |-> Call(op, World, identifier, "none",
                                       clock).out])
  /\ UNCHANGED <<cfgVars, clock, algo, pc, loc, hist>>

\* time passes; the shared store drops the entries whose deadline has come
SharedTick ==
  /\ clock < MaxSharedTime
  /\ clock' = clock + 1
  /\ redis' = Live(redis, clock + 1)
  /\ UNCHANGED <<cfgVars, tbStore, lbStore, qStore, qHeap, log, obs,
                 concVars>>

SharedNext ==
  \/ \E al \in Algos : \E sc \in SharedScopes : Replace(al, sc)
  \/ \E op \in Ops : \E identifier \in SharedIdentifiers :
       SharedCall(op, identifier)
  \/ SharedTick

SharedSpec == SharedInit /\ [][SharedNext]_vars

\* whether a stored entry is one that the limiter class in use writes
OwnShape(entry) ==
  IF algo = "queue"
    THEN entry.type = "hash" /\ DOMAIN entry.value = {"queue", "last_check"}
  ELSE IF algo = "token"
    THEN /\ entry.type = "string"
         /\ DOMAIN entry.value = {"tokens_remaining", "last_fill_time"}
  ELSE /\ entry.type = "string"
       /\ DOMAIN entry.value = {"water_level", "last_check"}

\* C16: record ownership.  Whenever an allow_request is made on the limiter
\* in use, the record it reads and replaces, the one stored under its key, is
\* not a record of a limiter of another algorithm type, and the key is not a
\* key of a limiter of another scope, all limiters using the same shared
\* store.
C16_RecordOwnership ==
  [][(ncalls' = ncalls + 1 /\ obs'.op = "allow") =>
       LET key == Key(obs'.id)
       IN  /\ key \in DOMAIN redis => OwnShape(redis[key])
           /\ \A sc \in Scopes \ {scope} : \A other \in SharedIdentifiers :
                _get_key(sc, other).value # key]_vars

\* the requests admitted among the calls of log
RECURSIVE Admitted(_)
Admitted(calls) ==
  IF calls = <<>> THEN 0
  ELSE Admitted(Tail(calls))
         + (IF Head(calls).op = "allow" /\ Head(calls).out = Return(TRUE)
              THEN 1 ELSE 0)

\* C19: no state cached in the limiter.  Over a shared store, replacing the
\* limiter object by a new object of the same class, capacity, fill_rate and
\* scope changes the outcome of no later call: each of allow_request, reset,
\* wait-time and status has on the new object the outcome, and the effect on
\* the shared store, that it has on the object in use.  And a burst of
\* allow_request calls in one tick on token bucket objects of one scope
\* admits min(calls, capacity) requests in total and leaves capacity minus
\* that many tokens, through however many objects the calls were made.
C19_NoCachedState ==
  /\ \A op \in Ops : \A identifier \in SharedIdentifiers :
       LET new == Call(op, NewObject(World), identifier, "none", clock)
           old == Call(op, World, identifier, "none", clock)
       IN  new.out = old.out /\ new.w.redis = old.w.redis
  /\ ( /\ clock = 0
       /\ log # <<>>
       /\ \A i \in 1..Len(hist) : hist[i] = <<"token", scope>>
       /\ \A j \in 1..Len(log) : log[j].op = "allow" )
     => /\ Admitted(log) = Min(Len(log), capacity)
        /\ \A identifier \in SharedIdentifiers :
             BucketStatus(World, identifier, "none", clock).out.value
                 .tokens_remaining
               = 100 * (capacity - Admitted(log))

\* capacity 2: one request through a first token bucket object and two
\* through a second one, all in one tick, admitted two in total, rejected
\* the third and left 0 tokens
C19_Witness ==
  /\ capacity = 2
  /\ clock = 0
  /\ hist = << <<"token", "user">>, <<"token", "user">> >>
  /\ Len(log) = 3
  /\ log[1] = [obj |-> 1, op |-> "allow", out |-> Return(TRUE)]
  /\ log[2] = [obj |-> 2, op |-> "allow", out |-> Return(TRUE)]
  /\ log[3] = [obj |-> 2, op |-> "allow", out |-> Return(FALSE)]
  /\ redis["ratelimit:user:A"].value.tokens_remaining = 0

\* ======================================================================
\* One key over a long time: one limiter object, one identifier, and time
\* that passes tick by tick or by more than the expiry horizon at once.  The
\* token and the leaky bucket store with ttl=self._ttl in the shared store;
\* the queue limiter stores in self._store or in the shared store.
\* ======================================================================
MaxLifeCap == 1
MaxLifeCalls == 2
MaxLifeTime == 70

\* the expiry horizon of a key: the time from empty to full, doubled, plus
\* the margin
Horizon == _ttl

\* log holds the time of the last allow_request for the key
LifeInit ==
  /\ capacity \in 1..MaxLifeCap
  /\ fillNum = 1
  /\ fillDen = 1
  /\ scope = "user"
  /\ algo \in Algos
  /\ backend \in Backends
  /\ algo \in {"token", "leaky"} => backend = "redis"
  /\ built = "yes"
  /\ redis = EmptyStore
  /\ clock = 0
  /\ tbStore = EmptyStore
  /\ lbStore = EmptyStore
  /\ qStore = EmptyStore
  /\ qHeap = EmptyStore
  /\ log = <<>>
  /\ obs = Seen("init", "None", "none", Return(algo), <<>>)
  /\ pc = [t \in Threads |-> "idle"]
  /\ loc = [t \in Threads |-> NoLoc]
  /\ ncalls = 0
  /\ tracing = FALSE
  /\ hist = <<>>

\* the caller makes the call op for the identifier
LifeCall(op, identifier) ==
  /\ ncalls < MaxLifeCalls
  /\ LET res == Call(op, World, identifier, "none", clock)
     IN  /\ tbStore' = res.w.tb
         /\ lbStore' = res.w.lb
         /\ qStore' = res.w.q
         /\ qHeap' = res.w.heap
         /\ redis' = res.w.redis
         /\ obs' = Seen(op, identifier, "none", res.out, res.ops)
  /\ ncalls' = ncalls + 1
  /\ log' = IF op = "allow" THEN <<clock>> ELSE log
  /\ UNCHANGED <<cfgVars, clock, algo, pc, loc, hist>>

\* no call is made for d ticks; the shared store drops the entries whose
\* deadline has come
Idle(d) ==
  /\ clock + d <= MaxLifeTime
  /\ clock' = clock + d
  /\ redis' = Live(redis, clock + d)
  /\ UNCHANGED <<cfgVars, tbStore, lbStore, qStore, qHeap, log, obs,
                 concVars>>

LifeNext ==
  \/ \E op \in Ops : \E identifier \in SharedIdentifiers :
       LifeCall(op, identifier)
  \/ Idle(1)
  \/ Idle(Horizon + 1)

LifeSpec == LifeInit /\ [][LifeNext]_vars

\* the keys that have a record, in the shared store or in the memory of the
\* limiter
Stored == (DOMAIN redis) \cup (DOMAIN qStore)

\* C20: bounded state lifetime.  For the three algorithms, a key that has a
\* record in the store received an allow_request no longer ago than the
\* expiry horizon: the record of a key that is idle for longer has returned
\* to absent, by reset or by expiry in the store.
C20_BoundedLifetime ==
  Stored # {} => (log # <<>> /\ clock - log[1] <= Horizon)

\* ======================================================================
\* Expiry against no expiry: one token or leaky bucket object over the
\* shared store, one identifier.  Beside the run of the program, in which
\* the store drops a record when its deadline has come, hist holds the
\* shared store of the same calls made at the same times over a store that
\* never drops a record.  obs tells the last step: the call and its outcome
\* in both runs, or that the caller was idle.
\* ======================================================================
MaxExpCap == 2
MaxExpDen == 2
MaxExpSteps == 6

ExpOps == {"allow", "reset"}

ExpInit ==
  /\ capacity \in 1..MaxExpCap
  /\ fillNum = 1
  /\ fillDen \in 1..MaxExpDen
  /\ scope = "user"
  /\ algo \in {"token", "leaky"}
  /\ backend = "redis"
  /\ built = "yes"
  /\ redis = EmptyStore
  /\ clock = 0
  /\ tbStore = EmptyStore
  /\ lbStore = EmptyStore
  /\ qStore = EmptyStore
  /\ qHeap = EmptyStore
  /\ log = <<>>
  /\ obs = [op |-> "init"]
  /\ pc = [t \in Threads |-> "idle"]
  /\ loc = [t \in Threads |-> NoLoc]
  /\ ncalls = 0
  /\ tracing = FALSE
  /\ hist = EmptyStore

\* the caller makes the call op for the identifier; log holds the time of
\* the last allow_request
ExpCall(op, identifier) ==
  /\ ncalls < MaxExpSteps
  /\ LET res == Call(op, World, identifier, "none", clock)
         ref == Call(op, [World EXCEPT !.redis = hist], identifier, "none",
                     clock)
     IN  /\ redis' = res.w.redis
         /\ hist' = ref.w.redis
         /\ obs' = [op |-> op, id |-> identifier, out |-> res.out,
                    ref |-> ref.out,
                    lapsed |-> /\ Key(identifier) \in DOMAIN hist
                               /\ Key(identifier) \notin DOMAIN redis]
  /\ ncalls' = ncalls + 1
  /\ log' = IF op = "allow" THEN <<clock>> ELSE log
  /\ UNCHANGED <<cfgVars, clock, tbStore, lbStore, qStore, qHeap, algo, pc,
                 loc>>

\* no call is made for d ticks; the shared store drops the entries whose
\* deadline has come
ExpIdle(d) ==
  /\ ncalls < MaxExpSteps
  /\ clock' = clock + d
  /\ redis' = Live(redis, clock + d)
  /\ obs' = [op |-> "idle"]
  /\ ncalls' = ncalls + 1
  /\ UNCHANGED <<cfgVars, tbStore, lbStore, qStore, qHeap, log, algo, pc, loc,
                 hist>>

ExpNext ==
  \/ \E op \in ExpOps : \E identifier \in SharedIdentifiers :
       ExpCall(op, identifier)
  \/ ExpIdle(1)
  \/ ExpIdle(Horizon)

ExpirySpec == ExpInit /\ [][ExpNext]_vars

\* C21: expiry is invisible.  The TTL handed to the store is never shorter
\* than capacity / fill_rate, the time of a full recovery; and for the token
\* bucket and the leaky bucket with capacity >= 1, every call has in the run
\* where idle records expire the outcome it has in the run where no record
\* ever expires, and every allow_request leaves the same record, so the same
\* token count or water level; a record the expiring store still has is the
\* record of the other run.
C21_ExpiryInvisible ==
  /\ _ttl * FillRate >= Cap
  /\ obs.op \in ExpOps => obs.out = obs.ref
  /\ obs.op = "allow" =>
       /\ Key(obs.id) \in DOMAIN redis
       /\ Key(obs.id) \in DOMAIN hist
       /\ redis[Key(obs.id)].value = hist[Key(obs.id)].value
  /\ \A key \in DOMAIN redis :
       key \in DOMAIN hist /\ redis[key].value = hist[key].value

\* capacity 2: an allow_request finds its record expired, one TTL after a
\* request was rejected, where the other run still has the record; both admit
\* it and both hold the record of a first request
C21_Witness ==
  /\ capacity = 2
  /\ obs.op = "allow"
  /\ obs.lapsed
  /\ obs.out = Return(TRUE)
  /\ clock = Horizon
  /\ ncalls = 5
  /\ redis[Key(obs.id)].value \in
       {[tokens_remaining |-> Cap - One, last_fill_time |-> clock],
        [water_level |-> One, last_check |-> clock]}

MaxLiveCap == 2
MaxLiveDen == 2
MaxLiveTime == 5

NoCall == [t |-> -1, tb |-> TRUE, lb |-> TRUE, q |-> TRUE]

LiveInit ==
  /\ capacity \in 1..MaxLiveCap
  /\ fillNum = 1
  /\ fillDen \in 1..MaxLiveDen
  /\ scope = "user"
  /\ backend = "memory"
  /\ built = "yes"
  /\ redis = EmptyStore
  /\ clock = 0
  /\ tbStore = EmptyStore
  /\ lbStore = EmptyStore
  /\ qStore = EmptyStore
  /\ qHeap = EmptyStore
  /\ log = [tb |-> 0, lb |-> 0, q |-> 0]
  /\ obs = [op |-> "init", last |-> NoCall, prev |-> NoCall]
  /\ algo = "all"
  /\ pc = [t \in Threads |-> "idle"]
  /\ loc = [t \in Threads |-> NoLoc]
  /\ ncalls = 0
  /\ tracing = FALSE
  /\ hist = <<>>

\* allow_request(identifier) on the three limiters
LiveAllow(identifier) ==
  /\ LET key == Key(identifier)
         tb == TBAllowRequest(tbStore, key, clock)
         lb == LBAllowRequest(lbStore, key, clock)
         q == QAllowRequest(qStore, qHeap, key, clock, clock)
     IN  /\ tbStore' = tb.store
         /\ lbStore' = lb.store
         /\ qStore' = q.store
         /\ qHeap' = q.heap
         /\ obs' = [op |-> "allow",
                    last |-> [t |-> clock, tb |-> tb.allowed,
                              lb |-> lb.allowed, q |-> q.allowed],
                    prev |-> obs.last]
         /\ log' = [tb |-> log.tb + (IF tb.allowed THEN 1 ELSE 0),
                    lb |-> log.lb + (IF lb.allowed THEN 1 ELSE 0),
                    q |-> log.q + (IF q.allowed THEN 1 ELSE 0)]
  /\ UNCHANGED <<cfgVars, redis, clock, concVars>>

\* time passes
LiveTick ==
  /\ clock < MaxLiveTime
  /\ clock' = clock + 1
  /\ UNCHANGED <<cfgVars, redis, tbStore, lbStore, qStore, qHeap, log, obs,
                 concVars>>

LiveNext ==
  \/ \E identifier \in SharedIdentifiers : LiveAllow(identifier)
  \/ LiveTick

\* time keeps advancing and the caller keeps calling
LiveSpec ==
  /\ LiveInit
  /\ [][LiveNext]_vars
  /\ WF_vars(LiveTick)
  /\ WF_vars(\E identifier \in SharedIdentifiers : LiveAllow(identifier))

\* the ticks it takes to credit one token, one unit of leak, one eviction
Need == Quot(One, FillRate)

\* C23: no starvation by rejections.  For each of the three algorithms with
\* fill_rate > 0 and capacity >= 1: if time keeps advancing and one caller
\* keeps calling allow_request for a key, however closely spaced, every
\* rejection is eventually followed by an admitted request (for a rejection
\* early enough that the time to credit one unit lies within the time the
\* run is followed for).
C23_NoStarvation ==
  /\ (obs.op = "allow" /\ ~obs.last.tb /\ clock + Need <= MaxLiveTime)
       ~> (obs.op = "allow" /\ obs.last.tb)
  /\ (obs.op = "allow" /\ ~obs.last.lb /\ clock + Need <= MaxLiveTime)
       ~> (obs.op = "allow" /\ obs.last.lb)
  /\ (obs.op = "allow" /\ ~obs.last.q /\ clock + Need <= MaxLiveTime)
       ~> (obs.op = "allow" /\ obs.last.q)

\* fill_rate 1/2, calls every tick, twice as often as units are credited:
\* the call at time 1 was rejected by the three limiters and the call at
\* time 2 is admitted by the three
C23_Witness ==
  /\ fillDen = 2
  /\ obs.op = "allow"
  /\ obs.last = [t |-> 2, tb |-> TRUE, lb |-> TRUE, q |-> TRUE]
  /\ obs.prev = [t |-> 1, tb |-> FALSE, lb |-> FALSE, q |-> FALSE]

\* ======================================================================
\* The scope chain of the workers: three limiter objects of one class, one
\* per scope, each with its own capacity, and a worker that passes every
\* request through global_rl, ip_rl and user_rl.  built holds the capacity
\* each object was constructed with; capacity and scope are those of the
\* object whose allow_request runs next.  The records of the three objects
\* are told apart by their keys, which differ in the scope part.  loc holds
\* the request on its way, obs the last request that came to its end.
\* ======================================================================
MaxChainCap == 2
MaxChainReqs == 3
MaxChainTime == 1

\* Check rate limiters in order: global -> IP -> user
ChainOrder == <<"global", "ip", "user">>

\* ip_mapping: the two users share one IP address
IpOf(user) == "192.0.2.1"

\* the identifier the worker hands to the limiter of scope sc
ChainId(sc, req) ==
  IF sc = "global" THEN "None" ELSE IF sc = "ip" THEN req.ip ELSE req.user

ChainKey(sc, req) == _get_key(sc, ChainId(sc, req)).value

\* a worker that consults every limiter, whatever the earlier ones decided
NextScope_all(sc, allowed) ==
  IF sc = "global" THEN "ip" ELSE IF sc = "ip" THEN "user" ELSE "done"

\* where the worker goes after the limiter of scope sc has decided: on to
\* the next scope, or, after a rejection (continue) and after the user
\* scope, to the end of the request
NextScope(sc, allowed) ==
  IF ~allowed THEN "done"
  ELSE IF sc = "global" THEN "ip" ELSE IF sc = "ip" THEN "user" ELSE "done"

\* a worker that undoes, after a rejection, what the request has written
Settle_rollback(w, start) == start

\* what the worker does to the stores after a rejection: it counts the
\* blocked request and sleeps, the stores stay as the calls left them
Settle(w, start) == w

\* the record of key in the stores w, None if there is none
Kept(w, key) ==
  IF algo = "queue" /\ backend = "memory" THEN QRecord(w.q, w.heap, key)
  ELSE IF key \in DOMAIN RecordsIn(w) THEN RecordsIn(w)[key]
  ELSE None

ChainInit ==
  /\ built \in [Scopes -> 1..MaxChainCap]
  /\ capacity = built["global"]
  /\ scope = "global"
  /\ fillNum = 1
  /\ fillDen = 1
  /\ backend \in Backends
  /\ algo \in Algos
  /\ redis = EmptyStore
  /\ clock = 0
  /\ tbStore = EmptyStore
  /\ lbStore = EmptyStore
  /\ qStore = EmptyStore
  /\ qHeap = EmptyStore
  /\ log = <<>>
  /\ obs = [op |-> "init"]
  /\ pc = [t \in Threads |-> "idle"]
  /\ loc = [t \in Threads |-> NoLoc]
  /\ ncalls = 0
  /\ tracing = FALSE
  /\ hist = <<>>

\* the worker of user starts a request: it comes to global_rl
ChainStart(user) ==
  /\ pc["t1"] = "idle"
  /\ ncalls < MaxChainReqs
  /\ ncalls' = ncalls + 1
  /\ pc' = [pc EXCEPT !["t1"] = "global"]
  /\ loc' = [loc EXCEPT !["t1"] =
               [op |-> "chain", user |-> user, ip |-> IpOf(user),
                calls |-> <<>>, start |-> World]]
  /\ scope' = "global"
  /\ capacity' = built["global"]
  /\ UNCHANGED <<fillNum, fillDen, backend, built, tracing, redis, clock,
                 tbStore, lbStore, qStore, qHeap, log, obs, algo, hist>>

\* the request req goes on after the limiter of the scope in turn has
\* decided: calls are the decisions so far, w the stores as they are left
ChainMove(req, allowed, calls, w) ==
  /\ tbStore' = w.tb
  /\ lbStore' = w.lb
  /\ qStore' = w.q
  /\ qHeap' = w.heap
  /\ redis' = w.redis
  /\ IF NextScope(scope, allowed) = "done"
       THEN /\ pc' = [pc EXCEPT !["t1"] = "idle"]
            /\ loc' = [loc EXCEPT !["t1"] = NoLoc]
            /\ obs' = [op |-> "chain", user |-> req.user, calls |-> calls,
                       allowed |-> scope = "user" /\ allowed,
                       before |-> [sc \in Scopes |->
                         Kept(req.start, ChainKey(sc, req))],
                       after |-> [sc \in Scopes |->
                         Kept(w, ChainKey(sc, req))]]
            /\ UNCHANGED <<scope, capacity>>
       ELSE /\ pc' = [pc EXCEPT !["t1"] = NextScope(scope, allowed)]
            /\ loc' = [loc EXCEPT !["t1"].calls = calls]
            /\ scope' = NextScope(scope, allowed)
            /\ capacity' = built[NextScope(scope, allowed)]
            /\ obs' = obs

\* the limiter in turn has answered the request req with res
ChainAnswer(req, key, res) ==
  ChainMove(req, res.out.value,
            Append(req.calls,
                   [scope |-> scope, out |-> res.out.value,
                    pre |-> Kept(World, key), post |-> Kept(res.w, key)]),
            IF res.out.value THEN res.w ELSE Settle(res.w, req.start))

\* the worker calls allow_request on the limiter it has come to, and goes on
\* to the next one or ends the request
ChainCall ==
  /\ pc["t1"] \in Scopes
  /\ ChainAnswer(loc["t1"], ChainKey(scope, loc["t1"]),
                 Call("allow", World, ChainId(scope, loc["t1"]), "none",
                      clock))
  /\ UNCHANGED <<fillNum, fillDen, backend, built, tracing, clock, log, algo,
                 ncalls, hist>>

\* time passes; the shared store drops the entries whose deadline has come
ChainTick ==
  /\ clock < MaxChainTime
  /\ clock' = clock + 1
  /\ redis' = Live(redis, clock + 1)
  /\ UNCHANGED <<cfgVars, tbStore, lbStore, qStore, qHeap, log, obs,
                 concVars>>

ChainNext ==
  \/ \E user \in Identifiers : ChainStart(user)
  \/ ChainCall
  \/ ChainTick

ChainSpec == ChainInit /\ [][ChainNext]_vars

\* C25: scope chain short-circuit.  A request that has passed the chain
\* consulted the limiters in the order global, ip, user and stopped at the
\* first that rejected it: every limiter consulted before the last admitted
\* it, a chain shorter than three ends in a rejection, the request counts as
\* admitted only if all three limiters admitted it, and the records of the
\* scopes after the rejecting one are what they were when the request began.
C25_ShortCircuit ==
  obs.op = "chain" =>
    LET n == Len(obs.calls)
    IN  /\ n \in 1..3
        /\ \A i \in 1..n : obs.calls[i].scope = ChainOrder[i]
        /\ \A i \in 1..(n - 1) : obs.calls[i].out
        /\ n < 3 => ~obs.calls[n].out
        /\ obs.allowed <=> (n = 3 /\ \A i \in 1..3 : obs.calls[i].out)
        /\ \A i \in (n + 1)..3 :
             obs.after[ChainOrder[i]] = obs.before[ChainOrder[i]]

\* user B's request is admitted by the global limiter and rejected by the ip
\* limiter, whose capacity user A, on the same address, has used up: the
\* user limiter is not called and B still has no record there
C25_Witness ==
  /\ obs.op = "chain"
  /\ obs.user = "B"
  /\ ~obs.allowed
  /\ Len(obs.calls) = 2
  /\ obs.calls[1].out
  /\ ~obs.calls[2].out
  /\ obs.before["user"] = None
  /\ obs.after["user"] = None
  /\ obs.after["ip"] # None

\* C26: no rollback across scopes.  When a request was admitted by the
\* global and the ip limiter and then rejected by the user limiter, the
\* records the global and the ip limiter wrote when they admitted it are
\* the records stored at the end of the request, and they are not the
\* records from before the request: what it consumed stays consumed.
C26_NoRollback ==
  ( /\ obs.op = "chain"
    /\ Len(obs.calls) = 3
    /\ obs.calls[1].out /\ obs.calls[2].out /\ ~obs.calls[3].out )
  => /\ obs.after["global"] = obs.calls[1].post
     /\ obs.after["ip"] = obs.calls[2].post
     /\ obs.after["global"] # obs.before["global"]
     /\ obs.after["ip"] # obs.before["ip"]
     /\ obs.after["user"] = obs.calls[3].post

\* user A's second request, at the time of the first: the global and the ip
\* limiter (capacity 2) admit it, the user limiter (capacity 1) rejects it,
\* and the global and ip records stay as the admitting calls wrote them
C26_Witness ==
  /\ built = [global |-> 2, ip |-> 2, user |-> 1]
  /\ clock = 0
  /\ ncalls = 2
  /\ obs.op = "chain"
  /\ obs.user = "A"
  /\ Len(obs.calls) = 3
  /\ obs.calls[1].out /\ obs.calls[2].out /\ ~obs.calls[3].out
  /\ obs.before["global"] # None
  /\ obs.after["global"] = obs.calls[1].post
  /\ obs.after["global"] # obs.before["global"]

\* ======================================================================
\* One decision step: one limiter object with capacity >= 1 and
\* fill_rate > 0, one identifier, one caller whose calls do not overlap.
\* obs holds the last allow_request: its time, its outcome, and the record
\* of its key before and after it, and the stores before and after it.
\* ======================================================================
MaxStepCap == 2
MaxStepNum == 2
MaxStepDen == 2
MaxStepTime == 3

\* a stored record as the limiter reads it: the hash a QueueLimiter keeps in
\* the shared store has its fields parsed, the queue by json.loads and
\* last_check by float
Parsed(record) ==
  IF algo = "queue" /\ backend = "redis" /\ record # None
    THEN [queue |-> json_loads(record.queue).value,
          last_check |-> float(record.last_check).value]
    ELSE record

StepInit ==
  /\ capacity \in 1..MaxStepCap
  /\ fillNum \in 1..MaxStepNum
  /\ fillDen \in 1..MaxStepDen
  /\ scope = "user"
  /\ algo \in Algos
  /\ backend \in Backends
  /\ built = "yes"
  /\ redis = EmptyStore
  /\ clock = 0
  /\ tbStore = EmptyStore
  /\ lbStore = EmptyStore
  /\ qStore = EmptyStore
  /\ qHeap = EmptyStore
  /\ log = <<>>
  /\ obs = [op |-> "init"]
  /\ pc = [t \in Threads |-> "idle"]
  /\ loc = [t \in Threads |-> NoLoc]
  /\ ncalls = 0
  /\ tracing = FALSE
  /\ hist = <<>>

\* allow_request(identifier) has ended as res
StepDone(identifier, key, res) ==
  /\ tbStore' = res.w.tb
  /\ lbStore' = res.w.lb
  /\ qStore' = res.w.q
  /\ qHeap' = res.w.heap
  /\ redis' = res.w.redis
  /\ obs' = [op |-> "allow", id |-> identifier, t |-> clock, out |-> res.out,
             pre |-> Parsed(Kept(World, key)),
             post |-> Parsed(Kept(res.w, key)),
             before |-> World, after |-> res.w]

\* the caller calls allow_request(identifier)
StepCall(identifier) ==
  /\ StepDone(identifier, Key(identifier),
              Call("allow", World, identifier, "none", clock))
  /\ UNCHANGED <<cfgVars, clock, log, concVars>>

\* time passes; the shared store drops the entries whose deadline has come
StepTick ==
  /\ clock < MaxStepTime
  /\ clock' = clock + 1
  /\ redis' = Live(redis, clock + 1)
  /\ UNCHANGED <<cfgVars, tbStore, lbStore, qStore, qHeap, log, obs,
                 concVars>>

StepNext ==
  \/ \E identifier \in SharedIdentifiers : StepCall(identifier)
  \/ StepTick

StepSpec == StepInit /\ [][StepNext]_vars

\* C27: token bucket step.  For an existing record (tokens, last) and a
\* call at time now >= last, allow_request computes
\* t = min(capacity, tokens + (now - last) * fill_rate), admits iff t >= 1,
\* and stores (t - 1, now) when it admits and (t, now) when it rejects.
C27_TokenStep ==
  (algo = "token" /\ obs.op = "allow" /\ obs.pre # None) =>
    LET t == Min(Cap, obs.pre.tokens_remaining
                        + (obs.t - obs.pre.last_fill_time) * FillRate)
    IN  /\ obs.t >= obs.pre.last_fill_time
        /\ obs.out = Return(t >= One)
        /\ t >= One =>
             obs.post = [tokens_remaining |-> t - One,
                         last_fill_time |-> obs.t]
        /\ t < One =>
             obs.post = [tokens_remaining |-> t, last_fill_time |-> obs.t]

\* capacity 2, one token left at time 0, a call at time 3: the refill is
\* clamped to 2 tokens, the request is admitted and 1 token is stored
C27_Witness ==
  /\ algo = "token"
  /\ capacity = 2
  /\ obs.op = "allow"
  /\ obs.pre = [tokens_remaining |-> One, last_fill_time |-> 0]
  /\ obs.t = 3
  /\ obs.pre.tokens_remaining + 3 * FillRate > Cap
  /\ obs.out = Return(TRUE)
  /\ obs.post = [tokens_remaining |-> Cap - One, last_fill_time |-> 3]

\* C28: leaky bucket step.  For an existing record (level, last) and a call
\* at time now >= last, allow_request computes
\* l = max(0, level - (now - last) * fill_rate), admits iff
\* l + 1 <= capacity, and stores (l + 1, now) when it admits and (l, now),
\* the leaked level, when it rejects.
C28_LeakyStep ==
  (algo = "leaky" /\ obs.op = "allow" /\ obs.pre # None) =>
    LET l == Max(0, obs.pre.water_level
                      - (obs.t - obs.pre.last_check) * FillRate)
    IN  /\ obs.t >= obs.pre.last_check
        /\ obs.out = Return(l + One <= Cap)
        /\ l + One <= Cap =>
             obs.post = [water_level |-> l + One, last_check |-> obs.t]
        /\ l + One > Cap =>
             obs.post = [water_level |-> l, last_check |-> obs.t]

\* capacity 1, fill_rate 1/2: the bucket is full at time 0, the call at
\* time 1 is rejected and the level stored is the half unit left by the leak
C28_Witness ==
  /\ algo = "leaky"
  /\ capacity = 1
  /\ fillNum = 1
  /\ fillDen = 2
  /\ obs.op = "allow"
  /\ obs.pre = [water_level |-> One, last_check |-> 0]
  /\ obs.t = 1
  /\ obs.out = Return(FALSE)
  /\ obs.post = [water_level |-> 1, last_check |-> 1]

\* the entries a call at obs.t drops from the record before it:
\* min(len(entries), floor((now - last_eviction_time) * fill_rate))
Dropped ==
  Min(Len(obs.pre.queue),
      ((obs.t - obs.pre.last_check) * FillRate) \div One)

\* C29: queue step.  For a record (entries, last_eviction_time) and a call
\* at time now, allow_request drops the
\* min(len(entries), floor((now - last_eviction_time) * fill_rate)) oldest
\* entries from the front and admits iff the remaining length is below
\* capacity; on admit it appends now as the last entry, on reject it stores
\* the remaining entries without adding one.
C29_QueueStep ==
  (algo = "queue" /\ obs.op = "allow" /\ obs.pre # None) =>
    LET rest == SubSeq(obs.pre.queue, Dropped + 1, Len(obs.pre.queue))
    IN  /\ obs.out = Return(Len(rest) < capacity)
        /\ Len(rest) < capacity => obs.post.queue = Append(rest, obs.t)
        /\ Len(rest) >= capacity => obs.post.queue = rest

\* capacity 2: of two entries of different times the call drops the older
\* one, keeps the newer one and appends its own time
C29_Witness ==
  /\ algo = "queue"
  /\ capacity = 2
  /\ obs.op = "allow"
  /\ obs.pre # None
  /\ Len(obs.pre.queue) = 2
  /\ obs.pre.queue[1] < obs.pre.queue[2]
  /\ Dropped = 1
  /\ obs.out = Return(TRUE)
  /\ obs.post.queue = <<obs.pre.queue[2], obs.t>>

LeftAt(record, now) ==
  IF record = None THEN 0
  ELSE Len(record.queue)
         - Min(Len(record.queue),
               ((now - record.last_check) * FillRate) \div One)

\* C31: queue usage report.  In every reachable state of the callers of one
\* QueueLimiter, get_current_usage returns current_requests equal to the
\* number of entries left after eviction at the time of the call, and
\* current_requests + available_slots = capacity with
\* 0 <= available_slots <= capacity.
C31_UsageReport ==
  algo = "queue" =>
    \A identifier \in Identifiers :
      LET key == Key(identifier)
          usage == QCurrentUsage(qStore, qHeap, key, clock, clock)
      IN  /\ usage.current_requests
               = LeftAt(QRecord(qStore, qHeap, key), clock)
          /\ usage.current_requests + usage.available_slots = capacity
          /\ 0 <= usage.available_slots
          /\ usage.available_slots <= capacity

\* the times of the admitted allow_request calls on a key, in the order in
\* which the calls completed
RECURSIVE TimesOf(_, _)
TimesOf(calls, key) ==
  IF calls = <<>> THEN <<>>
  ELSE IF /\ Head(calls).op = "allow"
          /\ Head(calls).key = key
          /\ Head(calls).res = TRUE
         THEN <<Head(calls).now>> \o TimesOf(Tail(calls), key)
         ELSE TimesOf(Tail(calls), key)

\* C32: auditable admission history.  In every reachable state of the
\* QueueLimiter in which no call is running, the stored entries of a key are
\* the call times of the most recent len(entries) admitted requests for that
\* key, in admission order, and no admitted request is missing from them
\* unless it was evicted: eviction removes at most floor(elapsed * fill_rate)
\* entries, so at most floor(clock * fill_rate) admitted requests are absent.
C32_AuditableHistory ==
  (algo = "queue" /\ AllIdle) =>
    \A key \in DOMAIN qStore :
      LET entries == qHeap[qStore[key].queue]
          times == TimesOf(hist, key)
      IN  /\ Len(entries) <= Len(times)
          /\ entries = SubSeq(times, Len(times) - Len(entries) + 1,
                              Len(times))
          /\ Len(times) - Len(entries) <= (clock * FillRate) \div One

\* C33: monotonic time accounting.  For every key, the timestamp stored in
\* its record (last_fill_time of the token bucket, last_check of the leaky
\* bucket and of the queue) never decreases from one write to the next while
\* the record exists, in every interleaving of concurrent allow_request
\* calls.
C33_MonotonicTime ==
  [][/\ \A key \in DOMAIN tbStore \cap DOMAIN tbStore' :
          tbStore'[key].last_fill_time >= tbStore[key].last_fill_time
     /\ \A key \in DOMAIN lbStore \cap DOMAIN lbStore' :
          lbStore'[key].last_check >= lbStore[key].last_check
     /\ \A key \in DOMAIN qStore \cap DOMAIN qStore' :
          qStore'[key].last_check >= qStore[key].last_check]_vars

\* C34: wait time agrees with the decision.  For every algorithm, key and
\* time, get_wait_time (token, leaky) or get_retry_after (queue) returns a
\* value >= 0, and it returns 0 exactly when an allow_request for that key
\* at the same instant would be admitted.
C34_WaitAgrees ==
  \A identifier \in Identifiers :
    LET key == Key(identifier)
        wait ==
          IF algo = "token"
            THEN TBWaitTime(_get_from_backend(tbStore, key), clock)
          ELSE IF algo = "leaky"
            THEN LBWaitTime(_get_from_backend(lbStore, key), clock)
          ELSE QRetryAfter(qStore, qHeap, key, clock, clock)
        allowed ==
          IF algo = "token" THEN TBAllowRequest(tbStore, key, clock).allowed
          ELSE IF algo = "leaky"
            THEN LBAllowRequest(lbStore, key, clock).allowed
          ELSE QAllowRequest(qStore, qHeap, key, clock, clock).allowed
    IN  /\ wait >= 0
        /\ wait = 0 <=> allowed

\* C35: introspection is read-only.  get_wait_time, get_status,
\* get_retry_after and get_current_usage never create, modify, delete or
\* re-time a record: the stores after such a call, the expiry deadlines
\* included, are the stores before it, the call makes no write, a key with no
\* state still has none, and an allow_request made after the call returns
\* what it would have returned without it.
C35_ReadOnly ==
  built = "yes" =>
    /\ \A identifier \in EdgeIdentifiers : \A op \in {"wait", "status"} :
         LET res == Call(op, World, identifier, "none", clock)
         IN  /\ res.w = World
             /\ \A i \in 1..Len(res.ops) : res.ops[i] \in {"get", "hgetall"}
             /\ Call("allow", res.w, identifier, "none", clock).out
                  = Call("allow", World, identifier, "none", clock).out
    /\ obs.op \in {"wait", "status"} =>
         \A i \in 1..Len(obs.ops) : obs.ops[i] \in {"get", "hgetall"}

\* a token bucket on the shared store: the record written at time 0 has
\* been read by get_wait_time at time 1 and still expires _ttl after time 0
C35_Witness ==
  /\ built = "yes"
  /\ backend = "redis"
  /\ algo = "token"
  /\ scope = "user"
  /\ clock = 1
  /\ obs.op = "wait"
  /\ obs.id = "A"
  /\ obs.ops = <<"get">>
  /\ ~obs.out.raised
  /\ "ratelimit:user:A" \in DOMAIN redis
  /\ redis["ratelimit:user:A"].deadline = _ttl

\* ======================================================================
\* Relations between executions of one caller
\* ======================================================================
\* the stores w as a call at time now finds them: the shared store has
\* dropped the entries whose deadline has come
AtTime(w, now) == [w EXCEPT !.redis = Live(w.redis, now)]

\* C36: rejections are free.  For every algorithm, in a sequential execution
\* with non-decreasing time, removing a rejected allow_request from the
\* execution changes neither the decision of a later allow_request for that
\* key nor the token count, water level or entries it observes: the next
\* allow_request, at any later time, returns the same and stores the same
\* whether it follows the rejected call or takes its place.
C36_RejectionsFree ==
  (obs.op = "allow" /\ obs.out = Return(FALSE)) =>
    \A now \in obs.t..(MaxStepTime + 1) :
      LET with == Call("allow", AtTime(obs.after, now), obs.id, "none", now)
          without == Call("allow", AtTime(obs.before, now), obs.id, "none",
                          now)
      IN  /\ with.out = without.out
          /\ with.w = without.w

\* a token bucket at fill_rate 1/2: the rejected call has stored the half
\* token accrued since the last write, and a call made now, one tick later,
\* is admitted
C36_Witness ==
  /\ algo = "token"
  /\ fillNum = 1
  /\ fillDen = 2
  /\ obs.op = "allow"
  /\ obs.out = Return(FALSE)
  /\ obs.pre # None
  /\ obs.post.tokens_remaining > obs.pre.tokens_remaining
  /\ clock = obs.t + 1
  /\ Call("allow", World, obs.id, "none", clock).out = Return(TRUE)


\* C37, as stated: the queue is never more permissive than the token bucket.
\* A QueueLimiter and a TokenBucketLimiter with equal integer capacity >= 1
\* and equal fill_rate, driven from no state by the same sequential sequence
\* of arrival times for a key: every request the queue admits is also
\* admitted by the token bucket.
C37_QueueNotMorePermissive ==
  obs.op = "allow" => (obs.last.q => obs.last.tb)

\* C37, amended: under the same conditions the queue's cumulative admitted
\* count never exceeds the token bucket's, although a single request can be
\* admitted by the queue and rejected by the token bucket.
C37_CumulativeBound ==
  log.q <= log.tb

\* capacity 2, fill_rate 1/2, calls at times 0, 0, 3, 4, 5: the token bucket
\* admits the call at time 4 with the half token left at time 3 and rejects
\* the call at time 5; the queue rejects the call at time 4, keeps its
\* eviction time 3, and admits the call at time 5.  Both have admitted four.
C37_Witness ==
  /\ capacity = 2
  /\ fillNum = 1
  /\ fillDen = 2
  /\ obs.op = "allow"
  /\ obs.prev = [t |-> 4, tb |-> TRUE, lb |-> TRUE, q |-> FALSE]
  /\ obs.last.t = 5
  /\ ~obs.last.tb
  /\ obs.last.q
  /\ log.q = 4
  /\ log.tb = 4

\* C38: elapsed time is never negative.  In every allow_request of every
\* algorithm, in every interleaving of concurrent calls on one key with a
\* non-decreasing clock, the value now - stored_timestamp used for refill,
\* leak or eviction is >= 0: the time a call has sampled is never earlier
\* than the timestamp of the record it has read.
C38_ElapsedNonNegative ==
  \A t \in Threads :
    /\ (algo = "token" /\ pc[t] = "write" /\ loc[t].bdata # None) =>
         loc[t].now - Get(loc[t].bdata, "last_fill_time", loc[t].now) >= 0
    /\ (algo = "leaky" /\ pc[t] = "write" /\ loc[t].bdata # None) =>
         loc[t].now - Get(loc[t].bdata, "last_check", loc[t].now) >= 0
    /\ (algo = "queue" /\ pc[t] \in {"q_slice", "q_len"}) =>
         loc[t].now - loc[t].data.last_check >= 0

====
